---- MODULE Spec2Model ----
(***************************************************************************)
(* The consensus engine of theory-forge (lib/consensus): the bounded      *)
(* fan-out of run_n_times, the aggregation of run_with_consensus and      *)
(* _aggregate_quotes, and the statistics of compute_stability.            *)
(*                                                                         *)
(* Numbers.  Metric values are integers (a fixed-point scale of the        *)
(* floats of the source).  Thresholds and rates are held in percent.  A    *)
(* rational is a pair <<num, den>> with den > 0; the square root of a      *)
(* rational r is held as Root(r), so that std, the CI margin and CV are    *)
(* exact and every comparison of the source is decided by integer          *)
(* arithmetic.  Floating-point rounding is not modelled.                   *)
(***************************************************************************)
EXTENDS Integers, Sequences, FiniteSets, TLC

\* ------------------------------------------------------------------ bounds

\* Largest run count n the caller passes.
MaxN == 3
\* Largest concurrency cap a direct caller of run_n_times passes.
MaxC == 2
\* Longest sample list handed to compute_stability on its own.
MaxSamples == 3

\* ------------------------------------------------------------ number helpers

\* An optional value: <<>> is Python's None, <<v>> the value v.
None == <<>>
Some(v) == <<v>>

Rat(a, b) == <<a, b>>
Zero == Rat(0, 1)
RatEq(x, y) == x[1] * y[2] = y[1] * x[2]
Root(r) == [sqrt_of |-> r]
RootIsZero(s) == s.sqrt_of[1] = 0

RECURSIVE SeqSum(_)
SeqSum(s) == IF s = <<>> THEN 0 ELSE Head(s) + SeqSum(Tail(s))

RECURSIVE SeqSumSq(_)
SeqSumSq(s) == IF s = <<>> THEN 0 ELSE Head(s) * Head(s) + SeqSumSq(Tail(s))

\* ------------------------------------------------------------------ config

\* config.py DEFAULT_CONFIG: the keys the engine and the classifier read.
\* Thresholds are in percent.
DEFAULT_CONFIG ==
    [ default_n |-> 10,
      high_stability_cv |-> 10,
      medium_stability_cv |-> 25,
      quote_high_stability |-> 75,
      quote_medium_stability |-> 50,
      max_concurrent_runs |-> 10,
      timeout_per_run_seconds |-> 120 ]

\* dict.get(key, default) on a mapping held as a function.
Get(d, key, default) == IF key \in DOMAIN d THEN d[key] ELSE default

\* A caller's config is a mapping from some keys to values.  NoConfig stands for
\* None and for the empty dict, which "config or DEFAULT_CONFIG" treats alike.
NoConfig == [k \in {} |-> 0]

\* "config or DEFAULT_CONFIG"
OrDefault(cfg) == IF DOMAIN cfg = {} THEN DEFAULT_CONFIG ELSE cfg

\* ------------------------------------------------------------- stability.py

StabilityRating == {"high", "medium", "low", "unknown"}

\* The dataclass MetricConsensus as constructed: every statistic at its default.
MetricConsensus(name, values) ==
    [ name |-> name, values |-> values,
      mean |-> Zero, median |-> Zero, std |-> Root(Zero),
      ci_lower |-> [mid |-> Zero, off |-> Root(Zero)],
      ci_upper |-> [mid |-> Zero, off |-> Root(Zero)],
      cv |-> [inf |-> FALSE, sq |-> Zero],
      stability |-> "unknown" ]

\* statistics.mean
Mean(values) == Rat(SeqSum(values), Len(values))

\* Median without the sort: the middle of the data as they come.
Median_unsorted(values) ==
    LET s == values
        n == Len(s)
    IN  IF n % 2 = 1 THEN Rat(s[(n + 1) \div 2], 1)
        ELSE Rat(s[n \div 2] + s[n \div 2 + 1], 2)

\* statistics.median: the middle of the sorted data, or the mean of the two middles.
Median(values) ==
    LET s == SortSeq(values, LAMBDA a, b : a < b)
        n == Len(s)
    IN  IF n % 2 = 1 THEN Rat(s[(n + 1) \div 2], 1)
        ELSE Rat(s[n \div 2] + s[n \div 2 + 1], 2)

\* statistics.stdev, as the sample variance under the root:
\* (n * sum(x^2) - sum(x)^2) / (n * (n - 1)).
Stdev(values) ==
    LET n == Len(values)
    IN  Root(Rat(n * SeqSumSq(values) - SeqSum(values) * SeqSum(values), n * (n - 1)))

\* The t-multiplier for n samples, times 100.
TValue(n) ==
    IF n >= 30 THEN 196
    ELSE CASE n = 2 -> 1271 [] n = 3 -> 430 [] n = 4 -> 318 [] n = 5 -> 278
           [] n = 6 -> 257 [] n = 7 -> 245 [] n = 8 -> 236 [] n = 9 -> 231
           [] n = 10 -> 226 [] n = 15 -> 214 [] n = 20 -> 209 [] n = 25 -> 206
           [] OTHER -> 200

\* margin = t_value * (std / sqrt(n)), as the root of t^2 * var / n.
Margin(t100, std, n) ==
    Root(Rat(t100 * t100 * std.sqrt_of[1], 10000 * std.sqrt_of[2] * n))

\* CoefficientOfVariation with 0 for every zero mean.
CoefficientOfVariation_zero(mean, std) ==
    IF mean[1] # 0
    THEN [inf |-> FALSE,
          sq |-> Rat(std.sqrt_of[1] * mean[2] * mean[2],
                     std.sqrt_of[2] * mean[1] * mean[1])]
    ELSE [inf |-> FALSE, sq |-> Zero]

\* cv = abs(std / mean) if mean != 0, else inf if std > 0 else 0.
CoefficientOfVariation(mean, std) ==
    IF mean[1] # 0
    THEN [inf |-> FALSE,
          sq |-> Rat(std.sqrt_of[1] * mean[2] * mean[2],
                     std.sqrt_of[2] * mean[1] * mean[1])]
    ELSE [inf |-> ~RootIsZero(std), sq |-> Zero]

\* metric.cv < threshold, the threshold in percent.
CvLess(cv, pct) ==
    /\ ~cv.inf
    /\ pct > 0
    /\ cv.sq[1] * 10000 < pct * pct * cv.sq[2]

\* Rate with the two thresholds tried in the other order.
Rate_medium_first(n, cv, high_threshold, medium_threshold) ==
    IF n < 3 THEN "unknown"
    ELSE IF CvLess(cv, medium_threshold) THEN "medium"
    ELSE IF CvLess(cv, high_threshold) THEN "high"
    ELSE "low"

\* Rate with the sample-size guard at "no sample" instead of "fewer than 3".
Rate_any_sample(n, cv, high_threshold, medium_threshold) ==
    IF n < 1 THEN "unknown"
    ELSE IF CvLess(cv, high_threshold) THEN "high"
    ELSE IF CvLess(cv, medium_threshold) THEN "medium"
    ELSE "low"

\* Rate with the ratings of the last two branches exchanged.
Rate_low_before_medium(n, cv, high_threshold, medium_threshold) ==
    IF n < 3 THEN "unknown"
    ELSE IF CvLess(cv, high_threshold) THEN "high"
    ELSE IF CvLess(cv, medium_threshold) THEN "low"
    ELSE "medium"

\* The rating chain of compute_stability.
Rate(n, cv, high_threshold, medium_threshold) ==
    IF n < 3 THEN "unknown"
    ELSE IF CvLess(cv, high_threshold) THEN "high"
    ELSE IF CvLess(cv, medium_threshold) THEN "medium"
    ELSE "low"

compute_stability(metric, config) ==
    LET cfg == OrDefault(config)
        values == metric.values
        n == Len(values)
        mean == Mean(values)
        std == IF n > 1 THEN Stdev(values) ELSE Root(Zero)
        margin == IF n > 1 THEN Margin(TValue(n), std, n) ELSE Root(Zero)
        cv == IF n > 1 THEN CoefficientOfVariation(mean, std)
              ELSE [inf |-> FALSE, sq |-> Zero]
        high_threshold == Get(cfg, "high_stability_cv", 10)
        medium_threshold == Get(cfg, "medium_stability_cv", 25)
    IN  IF values = <<>> THEN [metric EXCEPT !.stability = "unknown"]
        ELSE [ metric EXCEPT
                 !.mean = mean,
                 !.median = Median(values),
                 !.std = std,
                 !.ci_lower = [mid |-> mean, off |-> margin],
                 !.ci_upper = [mid |-> mean, off |-> margin],
                 !.cv = cv,
                 !.stability = Rate(n, cv, high_threshold, medium_threshold) ]

\* ------------------------------------------------------------ the responses

\* A response stands for its text together with what the caller's extractors
\* return on it: extract_metrics_fn(resp) is a mapping from metric names to
\* optional values (None when the extractor reports the key without a value),
\* extract_quotes_fn(resp) an ordered list of quote records, and tokens the
\* token count run_single returns with the text.  Texts are character sequences.
MetricNames == {"beta", "se"}

Quote(text, informant) == [text |-> text, informant |-> informant, context |-> "ctx"]

Responses ==
    << [ metrics |-> [k \in {"beta"} |-> Some(10)],
         quotes |-> << Quote(<<"A", "b">>, "I1"), Quote(<<"a", "b">>, "I2") >>,
         tokens |-> 3 ],
       [ metrics |-> [beta |-> Some(10), se |-> Some(0)],
         quotes |-> << >>,
         tokens |-> 4 ],
       [ metrics |-> [beta |-> Some(13), se |-> None],
         quotes |-> << Quote(<<"b", " ", "a">>, "I3"), [informant |-> "I4"] >>,
         tokens |-> 5 ],
       [ metrics |-> [beta |-> Some(20), se |-> Some(5)],
         quotes |-> << Quote(<<" ">>, "I5"), Quote(<<"B", " ", " ", "a">>, "I6") >>,
         tokens |-> 4 ],
       [ metrics |-> [k \in {} |-> 0],
         quotes |-> << >>,
         tokens |-> 1 ] >>

ResponseIds == 1..Len(Responses)

\* What a provider call can raise.  CancelledError derives from BaseException,
\* the others from Exception.
ExceptionTypes == {"APIError", "TimeoutError", "CancelledError"}

\* isinstance(r, Exception)
IsException(r) == r.kind = "raised" /\ r.exc # "CancelledError"

\* The configs a caller of run_with_consensus passes.
Configs ==
    { NoConfig,
      [medium_stability_cv |-> 15, quote_high_stability |-> 60],
      [high_stability_cv |-> 30, medium_stability_cv |-> 20, quote_medium_stability |-> 30],
      [max_concurrent_runs |-> 1],
      [quote_high_stability |-> 90, quote_medium_stability |-> 70] }

\* ------------------------------------------------------- _aggregate_quotes

Whitespace == {" "}

\* str.lower on one character.
LowerChar(c) == CASE c = "A" -> "a" [] c = "B" -> "b" [] OTHER -> c

Lower(text) == [i \in 1..Len(text) |-> LowerChar(text[i])]

\* str.split(): the maximal runs of non-whitespace characters.
RECURSIVE Split(_, _)
Split(text, word) ==
    IF text = <<>> THEN (IF word = <<>> THEN <<>> ELSE <<word>>)
    ELSE IF Head(text) \in Whitespace
         THEN (IF word = <<>> THEN <<>> ELSE <<word>>) \o Split(Tail(text), <<>>)
         ELSE Split(Tail(text), Append(word, Head(text)))

\* " ".join(words)
RECURSIVE Join(_)
Join(words) ==
    IF words = <<>> THEN <<>>
    ELSE IF Len(words) = 1 THEN words[1]
    ELSE words[1] \o <<" ">> \o Join(Tail(words))

normalize(text) == Join(Split(Lower(text), <<>>))

\* The index of the entry of quote_counts whose key is norm, or 0.
IndexOf(quote_counts, norm) ==
    IF \E i \in 1..Len(quote_counts) : quote_counts[i].norm = norm
    THEN CHOOSE i \in 1..Len(quote_counts) : quote_counts[i].norm = norm
    ELSE 0

\* CountRun without seen_in_run: every record of a run is counted.
RECURSIVE CountRun_no_dedup(_, _, _)
CountRun_no_dedup(run_quotes, seen_in_run, quote_counts) ==
    IF run_quotes = <<>> THEN quote_counts
    ELSE LET q == Head(run_quotes)
             norm == normalize(Get(q, "text", <<>>))
             at == IndexOf(quote_counts, norm)
             entered ==
                 IF at # 0 THEN quote_counts
                 ELSE Append(quote_counts,
                             [ norm |-> norm,
                               text |-> Get(q, "text", <<>>),
                               informant |-> Get(q, "informant", ""),
                               context |-> Get(q, "context", ""),
                               count |-> 0 ])
             k == IF at # 0 THEN at ELSE Len(entered)
         IN  IF norm # <<>>
             THEN CountRun_no_dedup(Tail(run_quotes), seen_in_run,
                                    [entered EXCEPT ![k].count = @ + 1])
             ELSE CountRun_no_dedup(Tail(run_quotes), seen_in_run, quote_counts)

\* The body of "for q in run_quotes" for one run: quote_counts is the dict in
\* insertion order, seen_in_run the set of the run.
RECURSIVE CountRun(_, _, _)
CountRun(run_quotes, seen_in_run, quote_counts) ==
    IF run_quotes = <<>> THEN quote_counts
    ELSE LET q == Head(run_quotes)
             norm == normalize(Get(q, "text", <<>>))
             at == IndexOf(quote_counts, norm)
             entered ==
                 IF at # 0 THEN quote_counts
                 ELSE Append(quote_counts,
                             [ norm |-> norm,
                               text |-> Get(q, "text", <<>>),
                               informant |-> Get(q, "informant", ""),
                               context |-> Get(q, "context", ""),
                               count |-> 0 ])
             k == IF at # 0 THEN at ELSE Len(entered)
         IN  IF norm # <<>> /\ norm \notin seen_in_run
             THEN CountRun(Tail(run_quotes), seen_in_run \cup {norm},
                           [entered EXCEPT ![k].count = @ + 1])
             ELSE CountRun(Tail(run_quotes), seen_in_run, quote_counts)

\* "for run_quotes in all_quotes"
RECURSIVE CountRuns(_, _)
CountRuns(all_quotes, quote_counts) ==
    IF all_quotes = <<>> THEN quote_counts
    ELSE CountRuns(Tail(all_quotes), CountRun(Head(all_quotes), {}, quote_counts))

\* rate >= threshold, the threshold in percent and rate = count / n_runs.
RateAtLeast(count, n_runs, pct) == count * 100 >= pct * n_runs

\* QuoteRating with "rate > threshold" for "rate >= threshold".
QuoteRating_strict(count, n_runs, high_threshold, medium_threshold) ==
    IF count * 100 > high_threshold * n_runs THEN "high"
    ELSE IF count * 100 > medium_threshold * n_runs THEN "medium"
    ELSE "low"

\* The rating chain of _aggregate_quotes.
QuoteRating(count, n_runs, high_threshold, medium_threshold) ==
    IF RateAtLeast(count, n_runs, high_threshold) THEN "high"
    ELSE IF RateAtLeast(count, n_runs, medium_threshold) THEN "medium"
    ELSE "low"

\* QuoteConsensus with the normalized text as the text shown.
QuoteConsensus_shows_norm(data, n_runs, config) ==
    [ text |-> data.norm,
      informant |-> data.informant,
      context |-> data.context,
      appearances |-> data.count,
      total_runs |-> n_runs,
      appearance_rate |-> Rat(data.count, n_runs),
      stability |-> QuoteRating(data.count, n_runs,
                                Get(config, "quote_high_stability", 75),
                                Get(config, "quote_medium_stability", 50)) ]

QuoteConsensus(data, n_runs, config) ==
    [ text |-> data.text,
      informant |-> data.informant,
      context |-> data.context,
      appearances |-> data.count,
      total_runs |-> n_runs,
      appearance_rate |-> Rat(data.count, n_runs),
      stability |-> QuoteRating(data.count, n_runs,
                                Get(config, "quote_high_stability", 75),
                                Get(config, "quote_medium_stability", 50)) ]

\* a.appearance_rate >= b.appearance_rate
RateGE(a, b) ==
    a.appearance_rate[1] * b.appearance_rate[2] >= b.appearance_rate[1] * a.appearance_rate[2]

\* SortByRate with an element put in front of the elements of its own rate.
RECURSIVE SortByRate_ties_reversed(_, _)
SortByRate_ties_reversed(results, sorted) ==
    IF results = <<>> THEN sorted
    ELSE LET q == Head(results)
             k == Cardinality({i \in 1..Len(sorted) : ~RateGE(q, sorted[i])})
         IN  SortByRate_ties_reversed(Tail(results),
                        SubSeq(sorted, 1, k) \o <<q>> \o SubSeq(sorted, k + 1, Len(sorted)))

\* results.sort(key=appearance_rate, reverse=True): a stable sort, so an
\* element goes behind every element whose rate is at least its own.
RECURSIVE SortByRate(_, _)
SortByRate(results, sorted) ==
    IF results = <<>> THEN sorted
    ELSE LET q == Head(results)
             k == Cardinality({i \in 1..Len(sorted) : RateGE(sorted[i], q)})
         IN  SortByRate(Tail(results),
                        SubSeq(sorted, 1, k) \o <<q>> \o SubSeq(sorted, k + 1, Len(sorted)))

_aggregate_quotes(all_quotes, n_runs, config) ==
    LET quote_counts == CountRuns(all_quotes, <<>>)
        results == [i \in 1..Len(quote_counts) |->
                        QuoteConsensus(quote_counts[i], n_runs, config)]
    IN  SortByRate(results, <<>>)

\* ------------------------------------------------- run_with_consensus, pure

\* [r[0] for r in results] and the extractions of the responses.
RECURSIVE SumTokens(_)
SumTokens(results) ==
    IF results = <<>> THEN 0
    ELSE Responses[Head(results).resp].tokens + SumTokens(Tail(results))

\* ValuesOf with "if extraction.get(name)" for "is not None": 0 is dropped too.
RECURSIVE ValuesOf_truthy(_, _)
ValuesOf_truthy(all_extractions, metric_name) ==
    IF all_extractions = <<>> THEN <<>>
    ELSE LET v == Get(Head(all_extractions), metric_name, None)
         IN  (IF v # None /\ v[1] # 0 THEN <<v[1]>> ELSE <<>>)
             \o ValuesOf_truthy(Tail(all_extractions), metric_name)

\* [extraction.get(name) for extraction in all_extractions
\*      if extraction.get(name) is not None]
RECURSIVE ValuesOf(_, _)
ValuesOf(all_extractions, metric_name) ==
    IF all_extractions = <<>> THEN <<>>
    ELSE LET v == Get(Head(all_extractions), metric_name, None)
         IN  (IF v # None THEN <<v[1]>> ELSE <<>>)
             \o ValuesOf(Tail(all_extractions), metric_name)

\* The flag of a LOW metric: its name and its CV.
MetricFlag(name, mc) == [kind |-> "metric", name |-> name, cv |-> mc.cv]

PreviewLen == 50

\* The flag of a LOW quote: q.text[:50] and appearances/total_runs.
QuoteFlag(q) ==
    [ kind |-> "quote",
      preview |-> SubSeq(q.text, 1, IF Len(q.text) < PreviewLen THEN Len(q.text) ELSE PreviewLen),
      appearances |-> q.appearances,
      total_runs |-> q.total_runs ]

\* Flagged without the loop over the quotes.
Flagged_metrics_only(kept, metrics, quote_list) ==
    LET low_metrics == SelectSeq(kept, LAMBDA m : metrics[m].stability = "low")
    IN  [i \in 1..Len(low_metrics) |-> MetricFlag(low_metrics[i], metrics[low_metrics[i]])]

\* The two loops that fill `flagged`: metrics.items() in insertion order, then
\* the quotes ("if quotes:" skips None and the empty list alike).
Flagged(kept, metrics, quote_list) ==
    LET low_metrics == SelectSeq(kept, LAMBDA m : metrics[m].stability = "low")
        low_quotes == SelectSeq(quote_list, LAMBDA q : q.stability = "low")
    IN  [i \in 1..Len(low_metrics) |-> MetricFlag(low_metrics[i], metrics[low_metrics[i]])]
        \o [i \in 1..Len(low_quotes) |-> QuoteFlag(low_quotes[i])]

\* Overall with MEDIUM looked for before LOW.
Overall_medium_first(stabilities) ==
    LET found == {stabilities[i] : i \in 1..Len(stabilities)}
    IN  IF "medium" \in found THEN "medium"
        ELSE IF "low" \in found THEN "low"
        ELSE IF stabilities # <<>> THEN "high"
        ELSE "unknown"

\* Overall with HIGH only when some rating is HIGH, as summarize_stabilities has it.
Overall_high_found(stabilities) ==
    LET found == {stabilities[i] : i \in 1..Len(stabilities)}
    IN  IF "low" \in found THEN "low"
        ELSE IF "medium" \in found THEN "medium"
        ELSE IF "high" \in found THEN "high"
        ELSE "unknown"

\* "Overall = worst stability found", over the list of ratings.
Overall(stabilities) ==
    LET found == {stabilities[i] : i \in 1..Len(stabilities)}
    IN  IF "low" \in found THEN "low"
        ELSE IF "medium" \in found THEN "medium"
        ELSE IF stabilities # <<>> THEN "high"
        ELSE "unknown"

\* The body of run_with_consensus after run_n_times has returned `results`, all
\* of them (text, tokens) pairs.  `names` is the order in which the set
\* all_metric_names is iterated, which becomes the order of metrics.items().
Consensus(results, names, metrics_fn, quotes_fn, config0) ==
    LET config == OrDefault(config0)
        raw_responses == [i \in 1..Len(results) |-> results[i].resp]
        total_tokens == SumTokens(results)
        all_extractions == [i \in 1..Len(raw_responses) |-> Responses[raw_responses[i]].metrics]
        kept == SelectSeq(names, LAMBDA m : ValuesOf(all_extractions, m) # <<>>)
        metrics == [m \in {kept[i] : i \in 1..Len(kept)} |->
                        compute_stability(MetricConsensus(m, ValuesOf(all_extractions, m)), config)]
        all_quotes == [i \in 1..Len(raw_responses) |-> Responses[raw_responses[i]].quotes]
        quote_list == IF quotes_fn
                      THEN _aggregate_quotes(all_quotes, Len(raw_responses), config)
                      ELSE <<>>
        flagged == Flagged(kept, metrics, quote_list)
        stabilities == [i \in 1..Len(kept) |-> metrics[kept[i]].stability]
                       \o [i \in 1..Len(quote_list) |-> quote_list[i].stability]
    IN  [ kind |-> "ConsensusResult",
          raw_responses |-> raw_responses,
          n_runs |-> Len(raw_responses),
          metrics |-> metrics,
          quotes |-> IF quotes_fn THEN Some(quote_list) ELSE None,
          overall_stability |-> Overall(stabilities),
          flagged_items |-> flagged,
          total_tokens |-> total_tokens ]

\* The orders in which a set of names can be iterated.
Orders(S) ==
    {o \in [1..Cardinality(S) -> S] : \A i, j \in 1..Cardinality(S) : i # j => o[i] # o[j]}

\* ------------------------------------------------------------------- state

VARIABLES
    entry,              \* the method the caller invoked
    n,                  \* the run count
    max_concurrent,     \* the cap run_n_times was given
    extract_metrics_fn, \* TRUE when the caller supplied a metric extractor
    extract_quotes_fn,  \* TRUE when the caller supplied a quote extractor
    config,             \* the caller's config
    semaphore,          \* the value of the asyncio.Semaphore
    tasks,              \* per call: "pending" (waiting in acquire), "running", "done"
    calls,              \* per call: the number of run_single invocations
    results,            \* per call: what gather collects for it
    log,                \* the indices printed as failed
    valid_results,      \* what run_n_times returns
    pc,                 \* "gather", "returned" (run_n_times has returned), "done"
    outcome,            \* what run_with_consensus returned or raised
    metric,             \* compute_stability alone: the MetricConsensus
    metric2,            \* compute_stability alone: a second MetricConsensus
    stab_config,        \* compute_stability alone: its config
    stab_pc,            \* compute_stability alone: "idle", "call", "done", "both"
    all_quotes,         \* _aggregate_quotes alone: per run, the extracted quote records
    quote_config,       \* _aggregate_quotes alone: the caller's config
    quote_results,      \* _aggregate_quotes alone: the list it returns
    quote_pc,           \* _aggregate_quotes alone: "idle", "call", "done"
    provider,           \* ConsensusEngine(provider, model): the provider name
    model_arg,          \* ConsensusEngine(provider, model): the model, or None
    available,          \* the client libraries that could be imported
    engine,             \* the constructed engine, or the exception __init__ raised
    issued,             \* the provider calls issued on the engine
    heap,               \* merge_config: the dict objects, by id
    merge_result,       \* merge_config: the id of the dict it returned, 0 before
    merge_pc,           \* merge_config: "idle", "call", "done"
    response,           \* extract_quotes: the response, as tokens
    extracted,          \* extract_quotes: the list it returned
    extract_pc,         \* extract_quotes: "idle", "call", "done"
    mc_obj,             \* to_dict: the MetricConsensus
    mc_dict,            \* to_dict: the mapping it returned
    mc_back,            \* to_dict: the MetricConsensus built from the mapping
    dict_pc,            \* to_dict: "idle", "object", "dict", "rebuilt"
    report,             \* validate: the CoherenceReport it returned
    coh_pc,             \* validate: "idle", "call", "done"
    frames,             \* two invocations of run_n_times: the locals of each
    semaphores,         \* two invocations of run_n_times: the Semaphore objects made so far
    evidence_public,    \* Vault: the rows of evidence_public in public.sqlite, by evidence_id
    evidence_private,   \* Vault: the rows of evidence_private in private.sqlite, by evidence_id
    access_log,         \* Vault: the rows of access_log in private.sqlite
    fetched,            \* Vault: what the last get_controlled or get_witness_only returned
    store_calls,        \* Vault: the number of store calls so far
    state_json,         \* log_decision: the file at state_path
    call_frames,        \* log_decision: the locals and the position of each caller's call
    returned,           \* log_decision: the Decision objects returned so far, in order
    ids_made           \* generate_decision_id: the number of ids generated so far

engine_vars ==
    << entry, n, max_concurrent, extract_metrics_fn, extract_quotes_fn, config,
       semaphore, tasks, calls, results, log, valid_results, pc, outcome >>
stab_vars == << metric, metric2, stab_config, stab_pc >>
quote_vars == << all_quotes, quote_config, quote_results, quote_pc >>
ctor_vars == << provider, model_arg, available, engine, issued >>
merge_vars == << heap, merge_result, merge_pc >>
extract_vars == << response, extracted, extract_pc >>
dict_vars == << mc_obj, mc_dict, mc_back, dict_pc >>
coh_vars == << report, coh_pc >>
two_vars == << frames, semaphores >>
vault_vars == << evidence_public, evidence_private, access_log, fetched, store_calls >>
audit_vars == << state_json, call_frames, returned, ids_made >>
more_vars == << merge_vars, extract_vars, dict_vars, coh_vars, two_vars, vault_vars, audit_vars >>
base_vars == << engine_vars, stab_vars, quote_vars, ctor_vars >>
vars == << base_vars, more_vars >>

\* What an action of one program leaves alone: every other program.
but_merge == << base_vars, extract_vars, dict_vars, coh_vars, two_vars, vault_vars, audit_vars >>
but_extract == << base_vars, merge_vars, dict_vars, coh_vars, two_vars, vault_vars, audit_vars >>
but_dict == << base_vars, merge_vars, extract_vars, coh_vars, two_vars, vault_vars, audit_vars >>
but_coh == << base_vars, merge_vars, extract_vars, dict_vars, two_vars, vault_vars, audit_vars >>
but_two == << base_vars, merge_vars, extract_vars, dict_vars, coh_vars, vault_vars, audit_vars >>
but_vault == << base_vars, merge_vars, extract_vars, dict_vars, coh_vars, two_vars, audit_vars >>
but_audit == << base_vars, merge_vars, extract_vars, dict_vars, coh_vars, two_vars, vault_vars >>

Pending == [kind |-> "pending"]
NoOutcome == [kind |-> "none"]

\* The default of the parameter max_concurrent of run_n_times.
DefaultMaxConcurrent == 10

Running == {i \in 1..n : tasks[i] = "running"}

\* compute_stability is not in use while the engine runs.
StabIdle ==
    /\ metric = MetricConsensus("", <<>>)
    /\ metric2 = MetricConsensus("", <<>>)
    /\ stab_config = NoConfig
    /\ stab_pc = "idle"

\* _aggregate_quotes is not in use on its own.
QuoteIdle ==
    /\ all_quotes = <<>>
    /\ quote_config = NoConfig
    /\ quote_results = <<>>
    /\ quote_pc = "idle"

NoEngine == [kind |-> "none"]

\* No construction of an engine is under way.
CtorIdle ==
    /\ provider = ""
    /\ model_arg = None
    /\ available = {}
    /\ engine = NoEngine
    /\ issued = 0

\* merge_config is not called.
MergeIdle ==
    /\ heap = <<>>
    /\ merge_result = 0
    /\ merge_pc = "idle"

\* extract_quotes is not called.
ExtractIdle ==
    /\ response = <<>>
    /\ extracted = <<>>
    /\ extract_pc = "idle"

\* MetricConsensus.to_dict is not called.
DictIdle ==
    /\ mc_obj = <<>>
    /\ mc_dict = <<>>
    /\ mc_back = <<>>
    /\ dict_pc = "idle"

\* CoherenceValidator.validate is not called.
CohIdle ==
    /\ report = <<>>
    /\ coh_pc = "idle"

\* ConsensusEngine.run_n_times (two invocations) is not called.
TwoIdle ==
    /\ frames = <<>>
    /\ semaphores = <<>>

\* Vault is not called.
VaultIdle ==
    /\ evidence_public = <<>>
    /\ evidence_private = <<>>
    /\ access_log = <<>>
    /\ fetched = <<>>
    /\ store_calls = 0

\* log_decision is not called.
AuditIdle ==
    /\ state_json = <<>>
    /\ call_frames = <<>>
    /\ returned = <<>>
    /\ ids_made = 0

MoreIdle ==
    /\ MergeIdle
    /\ ExtractIdle
    /\ DictIdle
    /\ CohIdle
    /\ TwoIdle
    /\ VaultIdle
    /\ AuditIdle

\* A caller invokes run_n_times(s, u, n, max_concurrent) directly, or
\* run_with_consensus(s, u, n, extract_metrics_fn, extract_quotes_fn, config),
\* which calls run_n_times(s, u, n) and so with the default cap.
Init ==
    /\ entry \in {"run_n_times", "run_with_consensus"}
    /\ n \in 0..MaxN
    /\ IF entry = "run_n_times"
       THEN /\ max_concurrent \in 1..MaxC
            /\ extract_metrics_fn = FALSE
            /\ extract_quotes_fn = FALSE
            /\ config = NoConfig
       ELSE /\ max_concurrent = DefaultMaxConcurrent
            /\ extract_metrics_fn \in BOOLEAN
            /\ extract_quotes_fn \in BOOLEAN
            /\ config \in Configs
    /\ semaphore = max_concurrent
    /\ tasks = [i \in 1..n |-> "pending"]
    /\ calls = [i \in 1..n |-> 0]
    /\ results = [i \in 1..n |-> Pending]
    /\ log = <<>>
    /\ valid_results = <<>>
    /\ pc = "gather"
    /\ outcome = NoOutcome
    /\ StabIdle
    /\ QuoteIdle
    /\ CtorIdle
    /\ MoreIdle

params == << entry, n, max_concurrent, extract_metrics_fn, extract_quotes_fn, config >>

\* Acquire without the wait for a free slot.
Acquire_unbounded(i) ==
    /\ pc = "gather"
    /\ tasks[i] = "pending"
    /\ \A j \in 1..(i - 1) : tasks[j] # "pending"
    /\ semaphore' = semaphore - 1
    /\ tasks' = [tasks EXCEPT ![i] = "running"]
    /\ calls' = [calls EXCEPT ![i] = @ + 1]
    /\ UNCHANGED << params, results, log, valid_results, pc, outcome, stab_vars, quote_vars, ctor_vars, more_vars >>

\* bounded_call of task i enters "async with semaphore" and calls run_single.
\* asyncio wakes the waiters of a semaphore in the order they arrived, and
\* gather starts the tasks in list order.
Acquire(i) ==
    /\ pc = "gather"
    /\ tasks[i] = "pending"
    /\ \A j \in 1..(i - 1) : tasks[j] # "pending"
    /\ semaphore > 0
    /\ semaphore' = semaphore - 1
    /\ tasks' = [tasks EXCEPT ![i] = "running"]
    /\ calls' = [calls EXCEPT ![i] = @ + 1]
    /\ UNCHANGED << params, results, log, valid_results, pc, outcome, stab_vars, quote_vars, ctor_vars, more_vars >>

\* run_single of task i returns (text, tokens); the semaphore is released.
Return(i, r) ==
    /\ pc = "gather"
    /\ tasks[i] = "running"
    /\ results' = [results EXCEPT ![i] = [kind |-> "ok", resp |-> r]]
    /\ tasks' = [tasks EXCEPT ![i] = "done"]
    /\ semaphore' = semaphore + 1
    /\ UNCHANGED << params, calls, log, valid_results, pc, outcome, stab_vars, quote_vars, ctor_vars, more_vars >>

\* Raise with a retry: the failed call goes back to wait for a slot.
Raise_retry(i, exc) ==
    /\ pc = "gather"
    /\ tasks[i] = "running"
    /\ tasks' = [tasks EXCEPT ![i] = IF calls[i] < 2 THEN "pending" ELSE "done"]
    /\ results' = [results EXCEPT ![i] =
                      IF calls[i] < 2 THEN Pending ELSE [kind |-> "raised", exc |-> exc]]
    /\ semaphore' = semaphore + 1
    /\ UNCHANGED << params, calls, log, valid_results, pc, outcome, stab_vars, quote_vars, ctor_vars, more_vars >>

\* run_single of task i raises exc; "async with" releases the semaphore and
\* gather(return_exceptions=True) keeps the exception as the task's result.
Raise(i, exc) ==
    /\ pc = "gather"
    /\ tasks[i] = "running"
    /\ results' = [results EXCEPT ![i] = [kind |-> "raised", exc |-> exc]]
    /\ tasks' = [tasks EXCEPT ![i] = "done"]
    /\ semaphore' = semaphore + 1
    /\ UNCHANGED << params, calls, log, valid_results, pc, outcome, stab_vars, quote_vars, ctor_vars, more_vars >>

\* The loop of run_n_times over gather's results: an instance of Exception is
\* printed, anything else is appended to valid_results.
Filter(rs) == SelectSeq(rs, LAMBDA r : ~IsException(r))

\* The runs the loop prints as failed, by index.
Logged(rs) == SelectSeq([i \in 1..Len(rs) |-> i], LAMBDA i : IsException(rs[i]))

\* gather completes once every task has settled; run_n_times filters and returns.
Gather ==
    /\ pc = "gather"
    /\ \A i \in 1..n : tasks[i] = "done"
    /\ valid_results' = Filter(results)
    /\ log' = Logged(results)
    /\ pc' = "returned"
    /\ UNCHANGED << params, semaphore, tasks, calls, results, outcome, stab_vars, quote_vars, ctor_vars, more_vars >>

\* run_with_consensus from the return of run_n_times to its own return.  r[0]
\* on a result that is no (text, tokens) pair raises TypeError.
Aggregate ==
    /\ entry = "run_with_consensus"
    /\ pc = "returned"
    /\ IF \E k \in 1..Len(valid_results) : valid_results[k].kind # "ok"
       THEN outcome' = [kind |-> "raised", exc |-> "TypeError"]
       ELSE \E names \in Orders(MetricNames) :
               outcome' = Consensus(valid_results,
                                    IF extract_metrics_fn THEN names ELSE <<>>,
                                    extract_metrics_fn, extract_quotes_fn, config)
    /\ pc' = "done"
    /\ UNCHANGED << params, semaphore, tasks, calls, results, log, valid_results, stab_vars, quote_vars, ctor_vars, more_vars >>

Next ==
    \/ \E i \in 1..n : Acquire(i)
    \/ \E i \in 1..n : \E r \in ResponseIds : Return(i, r)
    \/ \E i \in 1..n : \E exc \in ExceptionTypes : Raise(i, exc)
    \/ Gather
    \/ Aggregate

Spec == Init /\ [][Next]_vars

\* ------------------------------------------------- compute_stability alone

\* The samples and configs compute_stability is called with on its own.
SampleValues == {-5, 0, 5, 10, 11, 13}

RECURSIVE SeqsUpTo(_, _)
SeqsUpTo(S, k) ==
    IF k = 0 THEN {<<>>}
    ELSE LET shorter == SeqsUpTo(S, k - 1)
         IN  shorter \cup {Append(q, x) : q \in {t \in shorter : Len(t) = k - 1}, x \in S}

StabConfigs ==
    { NoConfig,
      [default_n |-> 5],
      [high_stability_cv |-> 0],
      [medium_stability_cv |-> 15],
      [high_stability_cv |-> 30, medium_stability_cv |-> 20] }

\* The engine is not in use while compute_stability is called on its own.
EngineIdle ==
    /\ entry = "none"
    /\ n = 0
    /\ max_concurrent = DefaultMaxConcurrent
    /\ extract_metrics_fn = FALSE
    /\ extract_quotes_fn = FALSE
    /\ config = NoConfig
    /\ semaphore = DefaultMaxConcurrent
    /\ tasks = <<>>
    /\ calls = <<>>
    /\ results = <<>>
    /\ log = <<>>
    /\ valid_results = <<>>
    /\ pc = "idle"
    /\ outcome = NoOutcome

\* One of the other programs runs alone: the engine and the rest are idle.
MergeAlone ==
    /\ EngineIdle /\ StabIdle /\ QuoteIdle /\ CtorIdle
    /\ ExtractIdle /\ DictIdle /\ CohIdle /\ TwoIdle /\ VaultIdle /\ AuditIdle
ExtractAlone ==
    /\ EngineIdle /\ StabIdle /\ QuoteIdle /\ CtorIdle
    /\ MergeIdle /\ DictIdle /\ CohIdle /\ TwoIdle /\ VaultIdle /\ AuditIdle
DictAlone ==
    /\ EngineIdle /\ StabIdle /\ QuoteIdle /\ CtorIdle
    /\ MergeIdle /\ ExtractIdle /\ CohIdle /\ TwoIdle /\ VaultIdle /\ AuditIdle
CohAlone ==
    /\ EngineIdle /\ StabIdle /\ QuoteIdle /\ CtorIdle
    /\ MergeIdle /\ ExtractIdle /\ DictIdle /\ TwoIdle /\ VaultIdle /\ AuditIdle
TwoAlone ==
    /\ EngineIdle /\ StabIdle /\ QuoteIdle /\ CtorIdle
    /\ MergeIdle /\ ExtractIdle /\ DictIdle /\ CohIdle /\ VaultIdle /\ AuditIdle
VaultAlone ==
    /\ EngineIdle /\ StabIdle /\ QuoteIdle /\ CtorIdle
    /\ MergeIdle /\ ExtractIdle /\ DictIdle /\ CohIdle /\ TwoIdle /\ AuditIdle
AuditAlone ==
    /\ EngineIdle /\ StabIdle /\ QuoteIdle /\ CtorIdle
    /\ MergeIdle /\ ExtractIdle /\ DictIdle /\ CohIdle /\ TwoIdle /\ VaultIdle

StabInit ==
    /\ EngineIdle
    /\ QuoteIdle
    /\ CtorIdle
    /\ MoreIdle
    /\ metric \in {MetricConsensus("m", v) : v \in SeqsUpTo(SampleValues, MaxSamples)}
    /\ metric2 = MetricConsensus("", <<>>)
    /\ stab_config \in StabConfigs
    /\ stab_pc = "call"

\* compute_stability(metric, config) fills the statistics in and returns.
ComputeStability ==
    /\ stab_pc = "call"
    /\ metric' = compute_stability(metric, stab_config)
    /\ stab_pc' = "done"
    /\ UNCHANGED << engine_vars, metric2, stab_config, quote_vars, ctor_vars, more_vars >>

StabNext == ComputeStability

StabSpec == StabInit /\ [][StabNext]_vars

\* -------------------------------------- compute_stability on two metrics

\* The sample lists of the second metric: CV 0, about 0.06, 0.16, 0.35, infinite.
PairSamples ==
    { <<10, 10, 10>>, <<10, 11, 10>>, <<10, 10, 13>>, <<10, 10, 5>>, <<-5, 5, 0>>, <<0, 0, 0>> }

\* Two metrics of at least 3 samples each are rated under one config.
PairInit ==
    /\ EngineIdle
    /\ QuoteIdle
    /\ CtorIdle
    /\ MoreIdle
    /\ metric \in {MetricConsensus("m", v) :
                     v \in {w \in SeqsUpTo(SampleValues, MaxSamples) : Len(w) >= 3}}
    /\ metric2 \in {MetricConsensus("m2", v) : v \in PairSamples}
    /\ stab_config \in StabConfigs
    /\ stab_pc = "call"

\* compute_stability(metric2, config) after compute_stability(metric, config).
ComputeSecond ==
    /\ stab_pc = "done"
    /\ metric2' = compute_stability(metric2, stab_config)
    /\ stab_pc' = "both"
    /\ UNCHANGED << engine_vars, metric, stab_config, quote_vars, ctor_vars, more_vars >>

PairNext ==
    \/ ComputeStability
    \/ ComputeSecond

PairSpec == PairInit /\ [][PairNext]_vars

\* ------------------------------------------------- _aggregate_quotes alone

\* The quote lists the extractor returns for one run.
RunQuoteLists ==
    { << Quote(<<"A", "b">>, "I1"), Quote(<<"a", "b">>, "I2") >>,
      << >>,
      << Quote(<<"b", " ", "a">>, "I3"), [informant |-> "I4"] >>,
      << Quote(<<" ">>, "I5"), Quote(<<"B", " ", " ", "a">>, "I6") >>,
      << Quote(<<"b">>, "I7"), Quote(<<"a", "b">>, "I7") >>,
      << Quote(<<"b", " ", "a">>, "I8"), Quote(<<"a", "B">>, "I9") >> }

\* Largest number of runs whose quotes are aggregated.
MaxRuns == 4

QuoteConfigs ==
    { NoConfig,
      [default_n |-> 5],
      [quote_high_stability |-> 60],
      [quote_medium_stability |-> 25],
      [quote_high_stability |-> 40, quote_medium_stability |-> 60] }

QuoteInit ==
    /\ EngineIdle
    /\ StabIdle
    /\ CtorIdle
    /\ MoreIdle
    /\ all_quotes \in SeqsUpTo(RunQuoteLists, MaxRuns)
    /\ quote_config \in QuoteConfigs
    /\ quote_results = <<>>
    /\ quote_pc = "call"

\* run_with_consensus calls _aggregate_quotes(all_quotes, len(raw_responses), config)
\* with config = config or DEFAULT_CONFIG and one entry of all_quotes per response.
AggregateQuotes ==
    /\ quote_pc = "call"
    /\ quote_results' = _aggregate_quotes(all_quotes, Len(all_quotes), OrDefault(quote_config))
    /\ quote_pc' = "done"
    /\ UNCHANGED << engine_vars, stab_vars, all_quotes, quote_config, ctor_vars, more_vars >>

QuoteNext == AggregateQuotes

QuoteSpec == QuoteInit /\ [][QuoteNext]_vars

\* --------------------------------------------------- run_n_times alone

\* The caller invokes run_n_times directly.
FanInit == Init /\ entry = "run_n_times"

FanNext ==
    \/ \E i \in 1..n : Acquire(i)
    \/ \E i \in 1..n : \E r \in ResponseIds : Return(i, r)
    \/ \E i \in 1..n : \E exc \in ExceptionTypes : Raise(i, exc)
    \/ Gather

\* The event loop runs a task that is ready, and every provider call returns
\* or raises.
FairFanSpec == FanInit /\ [][FanNext]_vars /\ WF_vars(FanNext)

\* ------------------------------------------- a provider call that is slow

\* run_single of task i is still running when timeout_per_run_seconds have
\* passed.  Nothing in run_n_times or run_single watches the clock: the task
\* keeps its semaphore slot and gather keeps waiting for it.
Hang(i) ==
    /\ pc = "gather"
    /\ tasks[i] = "running"
    /\ tasks' = [tasks EXCEPT ![i] = "overdue"]
    /\ UNCHANGED << params, semaphore, calls, results, log, valid_results, pc, outcome,
                    stab_vars, quote_vars, ctor_vars, more_vars >>

\* A call that is past the timeout returns after all: its result is kept like
\* that of any other call.
LateReturn(i, r) ==
    /\ pc = "gather"
    /\ tasks[i] = "overdue"
    /\ results' = [results EXCEPT ![i] = [kind |-> "ok", resp |-> r]]
    /\ tasks' = [tasks EXCEPT ![i] = "done"]
    /\ semaphore' = semaphore + 1
    /\ UNCHANGED << params, calls, log, valid_results, pc, outcome, stab_vars, quote_vars, ctor_vars, more_vars >>

\* A call that is past the timeout raises after all.
LateRaise(i, exc) ==
    /\ pc = "gather"
    /\ tasks[i] = "overdue"
    /\ results' = [results EXCEPT ![i] = [kind |-> "raised", exc |-> exc]]
    /\ tasks' = [tasks EXCEPT ![i] = "done"]
    /\ semaphore' = semaphore + 1
    /\ UNCHANGED << params, calls, log, valid_results, pc, outcome, stab_vars, quote_vars, ctor_vars, more_vars >>

\* The steps that are bound to happen: the event loop runs a task that is
\* ready, and a call that is running returns, raises or reaches the timeout.
TimelyNext ==
    \/ FanNext
    \/ \E i \in 1..n : Hang(i)

TimeoutNext ==
    \/ TimelyNext
    \/ \E i \in 1..n : \E r \in ResponseIds : LateReturn(i, r)
    \/ \E i \in 1..n : \E exc \in ExceptionTypes : LateRaise(i, exc)

\* run_n_times with calls that may be slow.  Whether a call that is past the
\* timeout ever settles is up to the provider, so no fairness is put on it.
TimeoutSpec == FanInit /\ [][TimeoutNext]_vars /\ WF_vars(TimelyNext)

\* ------------------------------------------------- ConsensusEngine.__init__

\* The provider names, model arguments and installed client libraries a
\* ConsensusEngine is constructed with.
Providers == {"anthropic", "openai", "gemini", "Anthropic", ""}
ModelArgs == {None, Some("m1"), Some("m2")}
Libraries == {"anthropic", "openai"}

\* The most provider calls made on one engine.
MaxCalls == 3

\* ANTHROPIC_AVAILABLE and OPENAI_AVAILABLE are set at import.
ConstructInit ==
    /\ EngineIdle /\ StabIdle /\ QuoteIdle /\ MoreIdle
    /\ provider \in Providers
    /\ model_arg \in ModelArgs
    /\ available \in SUBSET Libraries
    /\ engine = NoEngine
    /\ issued = 0

\* "model or default"
ModelOr(model, default) == IF model = None THEN default ELSE model[1]

\* __init__ without the two checks that the package is installed.
Construct_unchecked ==
    /\ engine = NoEngine
    /\ engine' =
          IF provider = "anthropic"
          THEN [kind |-> "engine", provider |-> provider,
                model |-> ModelOr(model_arg, "claude-sonnet-4-20250514")]
          ELSE IF provider = "openai"
          THEN [kind |-> "engine", provider |-> provider,
                model |-> ModelOr(model_arg, "gpt-4o-mini")]
          ELSE [kind |-> "raised", exc |-> "ValueError"]
    /\ UNCHANGED << engine_vars, stab_vars, quote_vars, provider, model_arg, available, issued,
                    more_vars >>

\* ConsensusEngine(provider, model): __init__ returns or raises.
Construct ==
    /\ engine = NoEngine
    /\ engine' =
          IF provider = "anthropic"
          THEN IF "anthropic" \notin available
               THEN [kind |-> "raised", exc |-> "ImportError"]
               ELSE [kind |-> "engine", provider |-> provider,
                     model |-> ModelOr(model_arg, "claude-sonnet-4-20250514")]
          ELSE IF provider = "openai"
          THEN IF "openai" \notin available
               THEN [kind |-> "raised", exc |-> "ImportError"]
               ELSE [kind |-> "engine", provider |-> provider,
                     model |-> ModelOr(model_arg, "gpt-4o-mini")]
          ELSE [kind |-> "raised", exc |-> "ValueError"]
    /\ UNCHANGED << engine_vars, stab_vars, quote_vars, provider, model_arg, available, issued,
                    more_vars >>

\* run_single on the engine: a method of the instance, so there is no call
\* without one.
RunSingle ==
    /\ engine.kind = "engine"
    /\ issued < MaxCalls
    /\ issued' = issued + 1
    /\ UNCHANGED << engine_vars, stab_vars, quote_vars, provider, model_arg, available, engine,
                    more_vars >>

ConstructNext ==
    \/ Construct
    \/ RunSingle

ConstructSpec == ConstructInit /\ [][ConstructNext]_vars

\* ------------------------------------------------------------ merge_config

\* A dict holds, per key, a plain value or a reference to another dict.
Leaf(v) == [leaf |-> v]
Ref(id) == [ref |-> id]

\* isinstance(value, dict)
IsDict(value) == "ref" \in DOMAIN value

\* d[key] = value
Put(d, key, value) == [k \in DOMAIN d \cup {key} |-> IF k = key THEN value ELSE d[k]]

RECURSIVE merge_config(_, _, _)
RECURSIVE MergeItems(_, _, _, _)

\* "for key, value in override.items()" over the keys still to come; h is the
\* heap and result the id of the copy being filled.  The order of the keys
\* decides only the ids of the dicts the recursion allocates.
MergeItems(h, result, override, keys) ==
    IF keys = {} THEN [heap |-> h, result |-> result]
    ELSE LET key == CHOOSE k \in keys : TRUE
             value == h[override][key]
         IN  IF key \in DOMAIN h[result] /\ IsDict(h[result][key]) /\ IsDict(value)
             THEN LET sub == merge_config(h, h[result][key].ref, value.ref)
                  IN  MergeItems([sub.heap EXCEPT ![result] = Put(@, key, Ref(sub.result))],
                                 result, override, keys \ {key})
             ELSE MergeItems([h EXCEPT ![result] = Put(@, key, value)],
                             result, override, keys \ {key})

\* merge_config as base.copy() followed by update(override).
merge_config_update(h, base, override) ==
    [ heap |-> Append(h, [k \in DOMAIN h[base] \cup DOMAIN h[override] |->
                              IF k \in DOMAIN h[override] THEN h[override][k] ELSE h[base][k]]),
      result |-> Len(h) + 1 ]

\* merge_config(base, override): result = base.copy() is a new dict with the
\* entries of base (nested dicts shared), then the loop, then return result.
merge_config(h, base, override) ==
    MergeItems(Append(h, h[base]), Len(h) + 1, override, DOMAIN h[override])

\* The largest plain value of a config.
MaxVal == 2

TopKeys == {"default_n", "stage_n"}
StageKeys == {"hunt_patterns", "mine_qual"}

\* The nested dicts: some of the stages, each with a plain value.
StageDicts == UNION {[S -> {Leaf(v) : v \in 1..MaxVal}] : S \in SUBSET StageKeys}

\* The configs merge_config is given: default_n absent or plain, stage_n
\* absent, plain or a nested dict.
ConfigTrees ==
    UNION {{t \in [S -> {Leaf(v) : v \in 1..MaxVal} \cup {[dict |-> d] : d \in StageDicts}] :
                "default_n" \in S => "leaf" \in DOMAIN t["default_n"]} : S \in SUBSET TopKeys}

\* The dict object of a config, with the nested dict at id `nested`.
TopObject(t, nested) ==
    [k \in DOMAIN t |-> IF "dict" \in DOMAIN t[k] THEN Ref(nested) ELSE t[k]]

\* The nested dict object of a config (an empty dict nobody refers to when
\* the config has none).
NestedObject(t) ==
    IF "stage_n" \in DOMAIN t /\ "dict" \in DOMAIN t["stage_n"]
    THEN t["stage_n"].dict
    ELSE [k \in {} |-> 0]

\* base is dict 1 (its stage_n dict 2), override is dict 3 (its stage_n dict 4).
MergeInit ==
    /\ MergeAlone
    /\ \E base \in ConfigTrees : \E override \in ConfigTrees :
          heap = << TopObject(base, 2), NestedObject(base),
                    TopObject(override, 4), NestedObject(override) >>
    /\ merge_result = 0
    /\ merge_pc = "call"

MergeConfig ==
    /\ merge_pc = "call"
    /\ LET r == merge_config(heap, 1, 3)
       IN  /\ heap' = r.heap
           /\ merge_result' = r.result
    /\ merge_pc' = "done"
    /\ UNCHANGED but_merge

MergeNext == MergeConfig

MergeSpec == MergeInit /\ [][MergeNext]_vars

\* ---------------------------------------------------------- extract_quotes

\* A response is read as a sequence of tokens: ">" at the start of a line, a
\* string in double quotes, a newline, a dash, a comma, a word (a run of
\* characters with none of the others in it) and a group in parentheses, its
\* body split at the commas.  Blanks between tokens are left out: every
\* pattern allows them where they occur.
Gt == [k |-> "gt"]
Nl == [k |-> "nl"]
Dash == [k |-> "dash"]
Comma == [k |-> "comma"]
Word(w) == [k |-> "word", w |-> w]
Paren(parts) == [k |-> "paren", parts |-> parts]
Quoted(text) == [k |-> "quote", text |-> text]

\* The text between the quotes: what it says, and whether blanks surround it.
Text(core, pad) == [core |-> core, pad |-> pad]

\* str.strip()
Strip(text) == [text EXCEPT !.pad = FALSE]

\* [^"]{20,}: whether the text has 20 characters or more.
Long(text) == text.core \in {"T1", "T2"}

\* The first index from i on whose token is of one of the kinds, Len + 1 when
\* there is none: where a run [^...]* that started at i ends.
Until(tokens, i, kinds) ==
    LET stops == {j \in i..Len(tokens) : tokens[j].k \in kinds}
    IN  IF stops = {} THEN Len(tokens) + 1
        ELSE CHOOSE j \in stops : \A x \in stops : j <= x

\* \s*: the first index from i on that is no newline.
SkipNl(tokens, i) ==
    LET stops == {j \in i..Len(tokens) : tokens[j].k # "nl"}
    IN  IF stops = {} THEN Len(tokens) + 1
        ELSE CHOOSE j \in stops : \A x \in stops : j <= x

KindAt(tokens, i) == IF i \in 1..Len(tokens) THEN tokens[i].k ELSE "end"

\* blockquote_pattern matched at token i: None, or the quote record and the
\* index after the match.
\*   >\s*"([^"]+)"\s*\n>\s*[-—]\s*([^,\n]+)(?:,\s*([^\n]+))?
BlockMatch(tokens, i) ==
    LET g == SkipNl(tokens, i + 2)
        d == SkipNl(tokens, g + 1)
        inf == SkipNl(tokens, d + 1)
        e == Until(tokens, inf, {"comma", "nl"})
        c == SkipNl(tokens, e + 1)
        ce == Until(tokens, c, {"nl"})
        with_context == KindAt(tokens, e) = "comma" /\ ce > c
    IN  IF /\ KindAt(tokens, i) = "gt"
           /\ KindAt(tokens, i + 1) = "quote"
           /\ g > i + 2
           /\ KindAt(tokens, g) = "gt"
           /\ KindAt(tokens, d) = "dash"
           /\ e > inf
        THEN Some([ quote |-> [ text |-> Strip(tokens[i + 1].text),
                                informant |-> SubSeq(tokens, inf, e - 1),
                                context |-> IF with_context
                                            THEN SubSeq(tokens, c, ce - 1) ELSE <<>> ],
                    end |-> IF with_context THEN ce ELSE e ])
        ELSE None

\* inline_pattern matched at token i.   "([^"]{20,})"[^(]*\(([^)]+)\)
\* informant_parts is the body split at the commas.
InlineMatch(tokens, i) ==
    LET p == Until(tokens, i + 1, {"paren"})
    IN  IF /\ KindAt(tokens, i) = "quote"
           /\ Long(tokens[i].text)
           /\ KindAt(tokens, p) = "paren"
        THEN Some([ quote |-> [ text |-> Strip(tokens[i].text),
                                informant |-> << Word(Head(tokens[p].parts)) >>,
                                context |-> [x \in 1..(Len(tokens[p].parts) - 1) |->
                                                Word(tokens[p].parts[x + 1])] ],
                    end |-> p + 1 ])
        ELSE None

\* dash_pattern matched at token i.   "([^"]{20,})"\s*[-—]+\s*([^\n]+)
\* When nothing follows the dashes on their line, the last of two or more
\* dashes is given back to the group.
DashMatch(tokens, i) ==
    LET j == SkipNl(tokens, i + 1)
        d == Until(tokens, j, {"gt", "quote", "nl", "comma", "word", "paren"})
        inf == SkipNl(tokens, d)
        e == Until(tokens, inf, {"nl"})
    IN  IF /\ KindAt(tokens, i) = "quote"
           /\ Long(tokens[i].text)
           /\ KindAt(tokens, j) = "dash"
        THEN IF e > inf
             THEN Some([ quote |-> [ text |-> Strip(tokens[i].text),
                                     informant |-> SubSeq(tokens, inf, e - 1),
                                     context |-> <<>> ],
                         end |-> e ])
             ELSE IF d - j >= 2
             THEN Some([ quote |-> [ text |-> Strip(tokens[i].text),
                                     informant |-> << Dash >>,
                                     context |-> <<>> ],
                         end |-> d ])
             ELSE None
        ELSE None

Match(pattern, tokens, i) ==
    CASE pattern = "blockquote" -> BlockMatch(tokens, i)
      [] pattern = "inline" -> InlineMatch(tokens, i)
      [] pattern = "dash" -> DashMatch(tokens, i)

\* re.finditer(pattern, response) from token i on: the matches from left to
\* right, none overlapping another.
RECURSIVE FindIter(_, _, _)
FindIter(pattern, tokens, i) ==
    IF i > Len(tokens) THEN <<>>
    ELSE LET m == Match(pattern, tokens, i)
         IN  IF m = None THEN FindIter(pattern, tokens, i + 1)
             ELSE << m[1].quote >> \o FindIter(pattern, tokens, m[1].end)

\* The third loop: a match is appended unless a quote with its text is
\* already in `quotes`.
RECURSIVE AddDashQuotes(_, _)
AddDashQuotes(quotes, matches) ==
    IF matches = <<>> THEN quotes
    ELSE AddDashQuotes(
             IF \E x \in 1..Len(quotes) : quotes[x].text = Head(matches).text
             THEN quotes ELSE Append(quotes, Head(matches)),
             Tail(matches))

\* extract_quotes(response): the first two loops append every match.
extract_quotes(tokens) ==
    AddDashQuotes(FindIter("blockquote", tokens, 1) \o FindIter("inline", tokens, 1),
                  FindIter("dash", tokens, 1))

\* The pieces responses are made of.
QuoteTexts == {Text("T1", FALSE), Text("T2", FALSE), Text("T1", TRUE)}

Fragments ==
    UNION {{ << Gt, Quoted(t), Nl, Gt, Dash, Word("I1") >>,
             << Quoted(t), Paren(<<"I2", "W">>) >>,
             << Quoted(t), Dash, Word("I3") >> } : t \in QuoteTexts}
    \cup { << Gt, Quoted(Text("T2", FALSE)), Nl, Gt, Dash, Word("I1"), Comma, Word("Mgr") >>,
           << Quoted(Text("S", FALSE)), Paren(<<"I5">>) >>,
           << Quoted(Text("T2", FALSE)), Dash, Dash >>,
           << Nl >>,
           << Paren(<<"I4">>) >>,
           << Word("and") >> }

\* The most pieces in one response.
MaxFragments == 3

RECURSIVE Concat(_)
Concat(pieces) == IF pieces = <<>> THEN <<>> ELSE Head(pieces) \o Concat(Tail(pieces))

ExtractInit ==
    /\ ExtractAlone
    /\ \E pieces \in SeqsUpTo(Fragments, MaxFragments) : response = Concat(pieces)
    /\ extracted = <<>>
    /\ extract_pc = "call"

ExtractQuotes ==
    /\ extract_pc = "call"
    /\ extracted' = extract_quotes(response)
    /\ extract_pc' = "done"
    /\ UNCHANGED << response, but_extract >>

ExtractNext == ExtractQuotes

ExtractSpec == ExtractInit /\ [][ExtractNext]_vars

\* --------------------------------------------------- MetricConsensus.to_dict

\* Here a member of StabilityRating and the string that is its value are told
\* apart: the member HIGH is Member("high"), its value is Str("high").
Member(rating) == [member |-> rating]
Str(s) == [str |-> s]

\* StabilityRating.<member>.value
Value(member) == Str(member.member)

\* A MetricConsensus as compute_stability leaves it, its stability a member.
MetricObject(m) == [m EXCEPT !.stability = Member(@)]

\* MetricConsensus.to_dict: the fields as they are, the stability by its value.
to_dict(self) ==
    [ name |-> self.name,
      values |-> self.values,
      mean |-> self.mean,
      median |-> self.median,
      std |-> self.std,
      ci_lower |-> self.ci_lower,
      ci_upper |-> self.ci_upper,
      cv |-> self.cv,
      stability |-> Value(self.stability) ]

\* MetricConsensus(**d): the generated __init__ of the dataclass stores each
\* argument as it is given.
MetricConsensusFrom(d) ==
    [ name |-> d.name,
      values |-> d.values,
      mean |-> d.mean,
      median |-> d.median,
      std |-> d.std,
      ci_lower |-> d.ci_lower,
      ci_upper |-> d.ci_upper,
      cv |-> d.cv,
      stability |-> d.stability ]

\* The metrics that are serialized: what compute_stability made of a sample list.
DictInit ==
    /\ DictAlone
    /\ \E values \in SeqsUpTo(SampleValues, MaxSamples) :
          mc_obj = MetricObject(compute_stability(MetricConsensus("beta", values), DEFAULT_CONFIG))
    /\ mc_dict = <<>>
    /\ mc_back = <<>>
    /\ dict_pc = "object"

ToDict ==
    /\ dict_pc = "object"
    /\ mc_dict' = to_dict(mc_obj)
    /\ dict_pc' = "dict"
    /\ UNCHANGED << mc_obj, mc_back, but_dict >>

Rebuild ==
    /\ dict_pc = "dict"
    /\ mc_back' = MetricConsensusFrom(mc_dict)
    /\ dict_pc' = "rebuilt"
    /\ UNCHANGED << mc_obj, mc_dict, but_dict >>

DictNext ==
    \/ ToDict
    \/ Rebuild

DictSpec == DictInit /\ [][DictNext]_vars

\* ------------------------------------------------ CoherenceValidator.validate

\* The most contributions and the most pre-announcements the extractors return.
MaxContributions == 2
MaxPreannouncements == 2

\* Mechanisms and theory texts, as strings of characters; the empty string and
\* None are both falsy.
Mechanisms == { <<>>, <<"A">>, <<"b">> }
TheoryTexts == { <<"a", "c">>, <<"B">> }

\* What ContributionExtractor.extract returns.
ContributionLists ==
    SeqsUpTo({[mechanism_if_any |-> m] : m \in Mechanisms}, MaxContributions)

\* What TheoryAnalyzer.analyze returns; None for an analyzer that gives none.
Severities == {"high", "medium", "low"}
StructureRatings == 1..5
TheoryAnalyses ==
    { [ preannouncements |-> pas, gap_statement |-> gap, structure_rating |-> r ] :
        pas \in SeqsUpTo({[severity |-> s, theory_text |-> t] :
                              s \in Severities, t \in TheoryTexts}, MaxPreannouncements),
        gap \in { <<>>, <<"g">> },
        r \in StructureRatings }
    \cup {None}

\* "needle in haystack" for strings.
Contains(haystack, needle) ==
    \E i \in 0..(Len(haystack) - Len(needle)) :
        SubSeq(haystack, i + 1, i + Len(needle)) = needle

CoherenceViolation(type, severity, evidence) ==
    [type |-> type, severity |-> severity, evidence |-> evidence]

\* The first loop: one FINDINGS_PREANNOUNCED per pre-announcement.
FindingsViolations(pas) ==
    [i \in 1..Len(pas) |->
        CoherenceViolation("findings_preannounced",
                           IF pas[i].severity = "high" THEN "critical" ELSE "warning",
                           pas[i].theory_text)]

\* The inner loop for one contribution with a mechanism: one
\* MECHANISM_PREANNOUNCED per pre-announcement whose text holds the mechanism.
MechanismViolationsOf(mc, pas) ==
    LET hits == SelectSeq(pas, LAMBDA pa : Contains(Lower(pa.theory_text),
                                                    Lower(mc.mechanism_if_any)))
    IN  [i \in 1..Len(hits) |->
            CoherenceViolation("mechanism_preannounced", "critical", hits[i].theory_text)]

RECURSIVE MechanismViolations(_, _)
MechanismViolations(mechanism_contributions, pas) ==
    IF mechanism_contributions = <<>> THEN <<>>
    ELSE MechanismViolationsOf(Head(mechanism_contributions), pas)
         \o MechanismViolations(Tail(mechanism_contributions), pas)

\* _check_coherence with every pre-announcement a warning.
_check_coherence_lenient(contributions, theory_analysis) ==
    IF theory_analysis = None THEN <<>>
    ELSE LET pas == theory_analysis.preannouncements
         IN  [i \in 1..Len(pas) |->
                 CoherenceViolation("findings_preannounced", "warning", pas[i].theory_text)]
             \o MechanismViolations(
                    SelectSeq(contributions, LAMBDA c : c.mechanism_if_any # <<>>), pas)
             \o (IF theory_analysis.gap_statement = <<>>
                 THEN << CoherenceViolation("missing_gap_statement", "warning", None) >>
                 ELSE <<>>)
             \o (IF theory_analysis.structure_rating <= 2
                 THEN << CoherenceViolation("confirmatory_structure", "critical", None) >>
                 ELSE IF theory_analysis.structure_rating = 3
                 THEN << CoherenceViolation("confirmatory_structure", "warning", None) >>
                 ELSE <<>>)

\* _check_coherence with the missing gap a critical violation.
_check_coherence_gap_critical(contributions, theory_analysis) ==
    IF theory_analysis = None THEN <<>>
    ELSE LET pas == theory_analysis.preannouncements
         IN  FindingsViolations(pas)
             \o MechanismViolations(
                    SelectSeq(contributions, LAMBDA c : c.mechanism_if_any # <<>>), pas)
             \o (IF theory_analysis.gap_statement = <<>>
                 THEN << CoherenceViolation("missing_gap_statement", "critical", None) >>
                 ELSE <<>>)
             \o (IF theory_analysis.structure_rating <= 2
                 THEN << CoherenceViolation("confirmatory_structure", "critical", None) >>
                 ELSE IF theory_analysis.structure_rating = 3
                 THEN << CoherenceViolation("confirmatory_structure", "warning", None) >>
                 ELSE <<>>)

\* CoherenceValidator._check_coherence
_check_coherence(contributions, theory_analysis) ==
    IF theory_analysis = None THEN <<>>
    ELSE LET pas == theory_analysis.preannouncements
         IN  FindingsViolations(pas)
             \o MechanismViolations(
                    SelectSeq(contributions, LAMBDA c : c.mechanism_if_any # <<>>), pas)
             \o (IF theory_analysis.gap_statement = <<>>
                 THEN << CoherenceViolation("missing_gap_statement", "warning", None) >>
                 ELSE <<>>)
             \o (IF theory_analysis.structure_rating <= 2
                 THEN << CoherenceViolation("confirmatory_structure", "critical", None) >>
                 ELSE IF theory_analysis.structure_rating = 3
                 THEN << CoherenceViolation("confirmatory_structure", "warning", None) >>
                 ELSE <<>>)

\* CoherenceReport.critical_count and CoherenceReport.is_properly_inductive
critical_count(self) ==
    Cardinality({i \in 1..Len(self.violations) : self.violations[i].severity = "critical"})

is_properly_inductive(self) == self.structure_rating >= 4 /\ critical_count(self) = 0

CoherenceReport(contributions, theory_analysis, violations) ==
    [ contributions |-> contributions,
      theory_analysis |-> theory_analysis,
      violations |-> violations,
      structure_rating |-> IF theory_analysis # None
                           THEN theory_analysis.structure_rating ELSE 0 ]

CoherenceInit ==
    /\ CohAlone
    /\ report = <<>>
    /\ coh_pc = "call"

\* validate(paper_sections): the two extractors ask the LLM, whose answers
\* are whatever they are; the violations follow from them.
Validate ==
    /\ coh_pc = "call"
    /\ \E contributions \in ContributionLists : \E theory_analysis \in TheoryAnalyses :
          report' = CoherenceReport(contributions, theory_analysis,
                                    _check_coherence(contributions, theory_analysis))
    /\ coh_pc' = "done"
    /\ UNCHANGED but_coh

CoherenceNext == Validate

CoherenceSpec == CoherenceInit /\ [][CoherenceNext]_vars

\* --------------------------------- two invocations of run_n_times at once

\* The most calls one of the two invocations makes.
MaxTwoN == 2

Invocations == {1, 2}

\* An invocation that has not started, or has returned, holds no locals; one
\* that runs holds n, max_concurrent, a reference to its semaphore and its tasks.
TwoInit ==
    /\ TwoAlone
    /\ frames \in [Invocations -> {[pc |-> "idle", n |-> k, max_concurrent |-> c,
                                    semaphore |-> 0, tasks |-> <<>>] :
                                       k \in 1..MaxTwoN, c \in 1..MaxC}]
    /\ semaphores = <<>>

\* run_n_times that takes the engine's one semaphore, made by the first invocation.
Call_shared(k) ==
    /\ frames[k].pc = "idle"
    /\ semaphores' = IF semaphores = <<>> THEN << frames[k].max_concurrent >> ELSE semaphores
    /\ frames' = [frames EXCEPT ![k].pc = "gather",
                                ![k].semaphore = 1,
                                ![k].tasks = [i \in 1..frames[k].n |-> "pending"]]
    /\ UNCHANGED but_two

\* Invocation k is entered: semaphore = asyncio.Semaphore(max_concurrent) makes
\* a new object, and the tasks are handed to gather.
Call(k) ==
    /\ frames[k].pc = "idle"
    /\ semaphores' = Append(semaphores, frames[k].max_concurrent)
    /\ frames' = [frames EXCEPT ![k].pc = "gather",
                                ![k].semaphore = Len(semaphores) + 1,
                                ![k].tasks = [i \in 1..frames[k].n |-> "pending"]]
    /\ UNCHANGED but_two

\* bounded_call i of invocation k enters "async with semaphore".
AcquireOf(k, i) ==
    /\ frames[k].pc = "gather"
    /\ frames[k].tasks[i] = "pending"
    /\ \A j \in 1..(i - 1) : frames[k].tasks[j] # "pending"
    /\ semaphores[frames[k].semaphore] > 0
    /\ semaphores' = [semaphores EXCEPT ![frames[k].semaphore] = @ - 1]
    /\ frames' = [frames EXCEPT ![k].tasks[i] = "running"]
    /\ UNCHANGED but_two

\* run_single of task i of invocation k returns or raises; the slot is released.
SettleOf(k, i) ==
    /\ frames[k].pc = "gather"
    /\ frames[k].tasks[i] = "running"
    /\ semaphores' = [semaphores EXCEPT ![frames[k].semaphore] = @ + 1]
    /\ frames' = [frames EXCEPT ![k].tasks[i] = "done"]
    /\ UNCHANGED but_two

\* gather of invocation k completes and run_n_times returns: its locals, the
\* semaphore among them, go with the frame.
ReturnOf(k) ==
    /\ frames[k].pc = "gather"
    /\ \A i \in 1..frames[k].n : frames[k].tasks[i] = "done"
    /\ frames' = [frames EXCEPT ![k].pc = "returned", ![k].semaphore = 0, ![k].tasks = <<>>]
    /\ UNCHANGED << semaphores, but_two >>

TwoNext ==
    \/ \E k \in Invocations : Call(k)
    \/ \E k \in Invocations : \E i \in 1..frames[k].n : AcquireOf(k, i)
    \/ \E k \in Invocations : \E i \in 1..frames[k].n : SettleOf(k, i)
    \/ \E k \in Invocations : ReturnOf(k)

TwoSpec == TwoInit /\ [][TwoNext]_vars

\* ------------------------------------------------------------------ Vault

\* The most store calls and the most logged accesses that are followed.
MaxStores == 3
MaxAccesses == 2

\* The tiers the CHECK constraint of evidence_public admits, lowest first.
Tiers == << "PUBLIC", "CONTROLLED", "WITNESS_ONLY" >>
TierSet == { Tiers[i] : i \in DOMAIN Tiers }

\* Evidence ids, and the EvidenceItem objects handed to store. tier is any
\* str; the str fields nonce, summary, anonymized and raw are never None.
EvidenceIds == { "ev_0000", "ev_0001" }
EvidenceItems ==
    [ evidence_id : EvidenceIds,
      tier        : TierSet \cup { "SECRET" },
      nonce       : { "n1" },
      summary     : { "s" },
      anonymized  : { "a" },
      raw         : { "r1", "r2" },
      source_file : { None } ]

\* The row store writes to evidence_public.
PublicRow(item) ==
    [ evidence_id |-> item.evidence_id,
      tier        |-> item.tier,
      summary     |-> item.summary ]

\* The row store writes to evidence_private: the anonymized content for the two
\* upper tiers only, the raw content for WITNESS_ONLY only.
PrivateRow_all_tiers(item) ==
    [ evidence_id        |-> item.evidence_id,
      nonce              |-> item.nonce,
      anonymized_content |-> Some(item.anonymized),
      raw_content        |-> Some(item.raw),
      source_file_path   |-> item.source_file ]

PrivateRow(item) ==
    [ evidence_id        |-> item.evidence_id,
      nonce              |-> item.nonce,
      anonymized_content |-> IF item.tier \in { "CONTROLLED", "WITNESS_ONLY" }
                             THEN Some(item.anonymized) ELSE None,
      raw_content        |-> IF item.tier = "WITNESS_ONLY"
                             THEN Some(item.raw) ELSE None,
      source_file_path   |-> item.source_file ]

\* Vault.init: two empty tables and an empty access log.
VaultInit ==
    /\ VaultAlone
    /\ evidence_public = [ id \in EvidenceIds |-> None ]
    /\ evidence_private = [ id \in EvidenceIds |-> None ]
    /\ access_log = << >>
    /\ fetched = None
    /\ store_calls = 0

\* Vault.store: INSERT OR REPLACE of the whole row in each table, the public
\* one first. A tier outside the CHECK constraint makes the first INSERT raise
\* IntegrityError, and the call leaves both tables as they were.
Store(item) ==
    /\ store_calls < MaxStores
    /\ store_calls' = store_calls + 1
    /\ IF item.tier \in TierSet
       THEN /\ evidence_public' =
                  [ evidence_public EXCEPT ![item.evidence_id] = PublicRow(item) ]
            /\ evidence_private' =
                  [ evidence_private EXCEPT ![item.evidence_id] = PrivateRow(item) ]
       ELSE UNCHANGED << evidence_public, evidence_private >>
    /\ UNCHANGED << access_log, fetched, but_vault >>

\* Vault.get_controlled: None for an id in neither table; else the access is
\* logged and the public row comes back with the anonymized content.
GetControlled(id) ==
    /\ Len(access_log) < MaxAccesses
    /\ IF evidence_public[id] = None \/ evidence_private[id] = None
       THEN /\ fetched' = None
            /\ UNCHANGED access_log
       ELSE /\ access_log' = Append(access_log,
                  [ evidence_id |-> id, tier_accessed |-> "CONTROLLED" ])
            /\ fetched' =
                  [ evidence_id        |-> id,
                    tier               |-> evidence_public[id].tier,
                    summary            |-> evidence_public[id].summary,
                    anonymized_content |-> evidence_private[id].anonymized_content ]
    /\ UNCHANGED << evidence_public, evidence_private, store_calls, but_vault >>

\* Vault.get_witness_only: the same, with the raw content and the source path.
GetWitnessOnly(id) ==
    /\ Len(access_log) < MaxAccesses
    /\ IF evidence_public[id] = None \/ evidence_private[id] = None
       THEN /\ fetched' = None
            /\ UNCHANGED access_log
       ELSE /\ access_log' = Append(access_log,
                  [ evidence_id |-> id, tier_accessed |-> "WITNESS_ONLY" ])
            /\ fetched' =
                  [ evidence_id      |-> id,
                    tier             |-> evidence_public[id].tier,
                    summary          |-> evidence_public[id].summary,
                    raw_content      |-> evidence_private[id].raw_content,
                    source_file_path |-> evidence_private[id].source_file_path ]
    /\ UNCHANGED << evidence_public, evidence_private, store_calls, but_vault >>

VaultNext ==
    \/ \E item \in EvidenceItems : Store(item)
    \/ \E id \in EvidenceIds : GetControlled(id)
    \/ \E id \in EvidenceIds : GetWitnessOnly(id)

VaultSpec == VaultInit /\ [][VaultNext]_vars

\* ------------------------------------------------------------ log_decision

\* The most concurrent callers of log_decision on one state file, and the most
\* decisions they create together.
MaxCallers == 2
MaxDecisions == 3

Callers == 1..MaxCallers
DecisionActions == { "accepted", "rejected" }

\* Decision.to_dict, reduced to the id and the action. An id is the ordinal of
\* the uuid generate_decision_id drew; 0 is the id of an entry logged earlier.
DecisionDict(id, action) == [ id |-> id, action |-> action ]

\* The file at state_path: absent, empty (opened for writing and not yet
\* written) or holding the JSON of a dict.
AbsentFile == [ kind |-> "absent" ]
EmptyFile == [ kind |-> "empty" ]
JsonFile(state) == [ kind |-> "json", state |-> state ]

\* The states a file holds before the calls: no file, a dict with no
\* "decisions" key, one with an empty list and one with an earlier entry.
EarlierStates ==
    { [ stage |-> "hunt_patterns" ],
      [ stage |-> "hunt_patterns", decisions |-> << >> ],
      [ stage |-> "hunt_patterns", decisions |-> << DecisionDict(0, "accepted") >>,
        updated_at |-> "earlier" ] }

IdleFrame == [ pc |-> "idle" ]

AuditInit ==
    /\ AuditAlone
    /\ state_json \in { AbsentFile } \cup { JsonFile(s) : s \in EarlierStates }
    /\ call_frames = [ c \in Callers |-> IdleFrame ]
    /\ returned = << >>
    /\ ids_made = 0

\* No call is between its load and its write-back.
Quiet(c) == call_frames[c].pc \in { "idle", "returned", "raised" }

\* state["decisions"].append(decision.to_dict()) and the new updated_at.
AppendDecision(state, decision) ==
    Put(Put(state, "decisions", Append(state.decisions, decision)),
        "updated_at", "now")

\* log_decision up to the write-back: the state is loaded ({} for no file, and
\* json.load raises JSONDecodeError on an empty file), the decisions list is
\* made if missing, the Decision is created and appended to the loaded state.
Load(c, action) ==
    /\ Quiet(c)
    /\ ids_made < MaxDecisions
    /\ IF state_json.kind = "empty"
       THEN /\ call_frames' = [ call_frames EXCEPT ![c] = [ pc |-> "raised" ] ]
            /\ UNCHANGED ids_made
       ELSE LET loaded == IF state_json.kind = "json"
                          THEN state_json.state ELSE [ k \in {} |-> 0 ]
                state == IF "decisions" \in DOMAIN loaded
                         THEN loaded ELSE Put(loaded, "decisions", << >>)
                decision == DecisionDict(ids_made + 1, action)
            IN  /\ ids_made' = ids_made + 1
                /\ call_frames' = [ call_frames EXCEPT ![c] =
                      [ pc       |-> "loaded",
                        state    |-> AppendDecision(state, decision),
                        decision |-> decision ] ]
    /\ UNCHANGED << state_json, returned, but_audit >>

\* open(state_path, "w"): the file is truncated.
Open(c) ==
    /\ call_frames[c].pc = "loaded"
    /\ state_json' = EmptyFile
    /\ call_frames' = [ call_frames EXCEPT ![c].pc = "opened" ]
    /\ UNCHANGED << returned, ids_made, but_audit >>

\* json.dump(state, f), the file is closed and the Decision is returned.
Dump(c) ==
    /\ call_frames[c].pc = "opened"
    /\ state_json' = JsonFile(call_frames[c].state)
    /\ returned' = Append(returned, call_frames[c].decision)
    /\ call_frames' = [ call_frames EXCEPT ![c].pc = "returned" ]
    /\ UNCHANGED << ids_made, but_audit >>

AuditNext ==
    \/ \E c \in Callers, action \in DecisionActions : Load(c, action)
    \/ \E c \in Callers : Open(c)
    \/ \E c \in Callers : Dump(c)

AuditSpec == AuditInit /\ [][AuditNext]_vars

\* ------------------------------------------------------------------ claims

Failed == {i \in 1..n : results[i].kind = "raised"}

\* C1: while run_n_times runs, the number of run_single calls that have
\* started and not yet settled is at most max_concurrent.
C1_InFlightAtMostCap == Cardinality(Running) <= max_concurrent

\* The cap binds: max_concurrent calls are in flight and another one waits.
C1_Witness ==
    /\ entry = "run_n_times"
    /\ Cardinality(Running) = max_concurrent
    /\ \E i \in 1..n : tasks[i] = "pending"

\* C2: each of the n calls is started exactly once and eventually settles; a
\* call that raises changes nothing about any other call, and no call is
\* started a second time, so run_single is invoked n times in all.
C2_EveryCallOnceAndSettles ==
    /\ [](\A i \in 1..n : calls[i] = IF tasks[i] = "pending" THEN 0 ELSE 1)
    /\ [][\A i \in 1..n :
            (results[i] = Pending /\ results'[i].kind = "raised")
                => \A j \in (1..n) \ {i} : tasks'[j] = tasks[j] /\ results'[j] = results[j]]_vars
    /\ <>(/\ pc = "returned"
          /\ \A i \in 1..n : tasks[i] = "done" /\ calls[i] = 1 /\ results[i] # Pending)

\* Call 1 raised while call 2 waited for its slot, and call 2 then ran and returned.
C2_Witness ==
    /\ pc = "returned"
    /\ max_concurrent = 1
    /\ n >= 2
    /\ results[1].kind = "raised"
    /\ results[2].kind = "ok"
    /\ \A i \in 1..n : calls[i] = 1

\* C3: run_n_times returns one result per call that succeeded and none for a
\* call that raised (n - f entries for f calls that raised), and
\* run_with_consensus reports n_runs = n - f with at most n - f samples per metric.
C3_OneResultPerSuccess ==
    /\ pc \in {"returned", "done"} =>
          /\ Len(valid_results) = n - Cardinality(Failed)
          /\ \A k \in 1..Len(valid_results) : valid_results[k].kind = "ok"
    /\ pc = "done" =>
          /\ outcome.kind = "ConsensusResult"
          /\ outcome.n_runs = n - Cardinality(Failed)
          /\ \A m \in DOMAIN outcome.metrics :
                Len(outcome.metrics[m].values) <= n - Cardinality(Failed)

\* C4: run_with_consensus returns a ConsensusResult and never raises, whichever
\* of the provider calls fail.
C4_NeverRaises == outcome.kind # "raised"

\* The quote entries of a result: none when no quote extractor was supplied.
QuoteEntries(o) == IF o.quotes = None THEN <<>> ELSE o.quotes[1]

\* C5: when every call fails, run_n_times returns the empty list and
\* run_with_consensus a result with n_runs = 0, no metrics, no quote entries,
\* no flagged items, total_tokens = 0 and overall_stability UNKNOWN.
C5_AllFailedIsEmpty ==
    (pc \in {"returned", "done"} /\ Failed = 1..n) =>
        /\ valid_results = <<>>
        /\ pc = "done" =>
              /\ outcome.kind = "ConsensusResult"
              /\ outcome.n_runs = 0
              /\ DOMAIN outcome.metrics = {}
              /\ QuoteEntries(outcome) = <<>>
              /\ outcome.flagged_items = <<>>
              /\ outcome.total_tokens = 0
              /\ outcome.overall_stability = "unknown"

\* The ratings of the metrics and quotes of a result.
Ratings(o) ==
    {o.metrics[m].stability : m \in DOMAIN o.metrics}
        \cup {QuoteEntries(o)[k].stability : k \in 1..Len(QuoteEntries(o))}

Returned == pc = "done" /\ outcome.kind = "ConsensusResult"

\* C6: overall_stability is LOW exactly when some metric or quote is LOW, and
\* MEDIUM exactly when none is LOW and some is MEDIUM.
C6_OverallLowMedium ==
    Returned =>
        /\ outcome.overall_stability = "low" <=> "low" \in Ratings(outcome)
        /\ outcome.overall_stability = "medium" <=>
              ("low" \notin Ratings(outcome) /\ "medium" \in Ratings(outcome))

\* A HIGH metric beside a LOW quote.
C6_Witness ==
    /\ Returned
    /\ \E m \in DOMAIN outcome.metrics : outcome.metrics[m].stability = "high"
    /\ \E k \in 1..Len(QuoteEntries(outcome)) :
          QuoteEntries(outcome)[k].stability = "low"
    /\ outcome.overall_stability = "low"

\* C7: overall_stability is HIGH only if some metric or quote is rated HIGH; a
\* result whose items are all UNKNOWN has overall_stability UNKNOWN.
C7_HighNeedsHighItem ==
    Returned =>
        /\ outcome.overall_stability = "high" => "high" \in Ratings(outcome)
        /\ Ratings(outcome) = {"unknown"} => outcome.overall_stability = "unknown"

ThresholdOf(cfg, key, default) == IF key \in DOMAIN cfg THEN cfg[key] ELSE default

\* CV < pct percent, from the samples themselves: with S the sum and Q the sum
\* of squares of n >= 2 samples, var = (nQ - S^2) / (n(n-1)) and mean = S/n.
CvBelow(values, pct) ==
    LET k == Len(values)
        S == SeqSum(values)
        D == k * SeqSumSq(values) - S * S
    IN  /\ pct > 0
        /\ IF S = 0 THEN D = 0
           ELSE 10000 * k * D < pct * pct * (k - 1) * S * S

IsNumber(ci, v) == RatEq(ci.mid, Rat(v, 1)) /\ RootIsZero(ci.off)

\* C10: a sample list of length 0 or 1 is rated UNKNOWN whatever the values and
\* thresholds; for length 0 mean, median, std and the CI bounds are 0, for
\* length 1 mean = median = the value, std = 0, CI = [value, value] and CV = 0.
C10_ShortListsUnknown ==
    (stab_pc = "done" /\ Len(metric.values) <= 1) =>
        LET v == IF metric.values = <<>> THEN 0 ELSE metric.values[1]
        IN  /\ metric.stability = "unknown"
            /\ RatEq(metric.mean, Rat(v, 1))
            /\ RatEq(metric.median, Rat(v, 1))
            /\ RootIsZero(metric.std)
            /\ IsNumber(metric.ci_lower, v)
            /\ IsNumber(metric.ci_upper, v)
            /\ Len(metric.values) = 1 => (~metric.cv.inf /\ metric.cv.sq[1] = 0)

\* One non-zero sample under a config that sets a threshold.
C10_Witness ==
    /\ stab_pc = "done"
    /\ Len(metric.values) = 1
    /\ metric.values[1] # 0
    /\ "high_stability_cv" \in DOMAIN stab_config

\* The CV of a list of n >= 2 samples, from the samples themselves: infinite,
\* or the root of num / den.
CvOf(values) ==
    LET k == Len(values)
        S == SeqSum(values)
        D == k * SeqSumSq(values) - S * S
    IN  IF S = 0 THEN [inf |-> D > 0, num |-> 0, den |-> 1]
        ELSE [inf |-> FALSE, num |-> k * D, den |-> (k - 1) * S * S]

\* CV a < CV b
CvLT(a, b) == ~a.inf /\ (b.inf \/ a.num * b.den < b.num * a.den)

\* HIGH > MEDIUM > LOW
Rank(rating) == CASE rating = "high" -> 3 [] rating = "medium" -> 2 [] rating = "low" -> 1

\* C11: for fixed thresholds and two metrics of at least 3 samples each, the
\* one with the smaller CV is rated at least as high as the other, whatever the
\* two thresholds are (also with high_stability_cv above medium_stability_cv).
C11_RatingMonotonicInCv ==
    stab_pc = "both" =>
        /\ CvLT(CvOf(metric.values), CvOf(metric2.values))
              => Rank(metric.stability) >= Rank(metric2.stability)
        /\ CvLT(CvOf(metric2.values), CvOf(metric.values))
              => Rank(metric2.stability) >= Rank(metric.stability)

\* Under thresholds in reversed order, the smaller CV is rated HIGH and the larger LOW.
C11_Witness ==
    /\ stab_pc = "both"
    /\ "high_stability_cv" \in DOMAIN stab_config
    /\ "medium_stability_cv" \in DOMAIN stab_config
    /\ stab_config["high_stability_cv"] > stab_config["medium_stability_cv"]
    /\ CvLT(CvOf(metric.values), CvOf(metric2.values))
    /\ ~CvOf(metric2.values).inf
    /\ CvOf(metric.values).num > 0
    /\ metric.stability = "high"
    /\ metric2.stability = "low"

\* The config names neither threshold, so the defaults 0.10 and 0.25 apply.
DefaultThresholds(cfg) ==
    "high_stability_cv" \notin DOMAIN cfg /\ "medium_stability_cv" \notin DOMAIN cfg

\* All samples are the same value.
AllEqual(values) == \A i \in 1..Len(values) : values[i] = values[1]

\* C12: compute_stability returns on a zero mean: for n >= 2 samples with
\* mean 0, CV is infinite when std > 0 and 0 when std = 0; with the default
\* thresholds three samples of mean 0 and std > 0 are rated LOW and three equal
\* samples are rated HIGH.
C12_ZeroMeanCv ==
    (stab_pc = "done" /\ Len(metric.values) >= 2) =>
        /\ SeqSum(metric.values) = 0 =>
              /\ ~AllEqual(metric.values) => metric.cv.inf
              /\ AllEqual(metric.values) => (~metric.cv.inf /\ metric.cv.sq[1] = 0)
        /\ (Len(metric.values) = 3 /\ DefaultThresholds(stab_config)) =>
              /\ (SeqSum(metric.values) = 0 /\ ~AllEqual(metric.values))
                    => metric.stability = "low"
              /\ AllEqual(metric.values) => metric.stability = "high"

\* [-5, 5, 0] under the default thresholds: an infinite CV, rated LOW.
C12_Witness ==
    /\ stab_pc = "done"
    /\ metric.values = <<-5, 5, 0>>
    /\ DefaultThresholds(stab_config)
    /\ metric.cv.inf
    /\ metric.stability = "low"

\* The normalized texts of one run's quote records, the empty one left out.
NormsOfRun(run) ==
    {normalize(Get(run[j], "text", <<>>)) : j \in 1..Len(run)} \ {<<>>}

\* The runs whose extracted list holds the normalized text at least once.
RunsContaining(norm) == {r \in 1..Len(all_quotes) : norm \in NormsOfRun(all_quotes[r])}

\* C13: each quote's appearances is the number of runs whose list holds its
\* normalized text at least once, so 1 <= appearances <= total_runs and
\* appearance_rate = appearances / total_runs lies in (0, 1].
C13_AppearancesCountRuns ==
    quote_pc = "done" =>
        \A k \in 1..Len(quote_results) :
            LET q == quote_results[k]
            IN  /\ q.appearances = Cardinality(RunsContaining(normalize(q.text)))
                /\ q.total_runs = Len(all_quotes)
                /\ 1 <= q.appearances /\ q.appearances <= q.total_runs
                /\ RatEq(q.appearance_rate, Rat(q.appearances, q.total_runs))
                /\ q.appearance_rate[1] > 0
                /\ q.appearance_rate[1] <= q.appearance_rate[2]

\* A quote that one run holds twice (in two spellings) and another run once: 2 of 3.
C13_Witness ==
    /\ quote_pc = "done"
    /\ Len(all_quotes) = 3
    /\ \E r \in 1..3 :
          /\ Len(all_quotes[r]) = 2
          /\ normalize(Get(all_quotes[r][1], "text", <<>>))
                 = normalize(Get(all_quotes[r][2], "text", <<>>))
    /\ \E k \in 1..Len(quote_results) :
          /\ normalize(quote_results[k].text) = <<"a", "b">>
          /\ quote_results[k].appearances = 2

\* C14: a quote is HIGH when appearance_rate >= quote_high_stability (default
\* 0.75), MEDIUM when quote_medium_stability (default 0.50) <= rate <
\* quote_high_stability, LOW otherwise and never UNKNOWN; 1 of 4 runs is rate
\* 0.25 and, under the defaults, LOW.
C14_QuoteRatingByRate ==
    quote_pc = "done" =>
        \A k \in 1..Len(quote_results) :
            LET q == quote_results[k]
                high == ThresholdOf(quote_config, "quote_high_stability", 75)
                medium == ThresholdOf(quote_config, "quote_medium_stability", 50)
                pct100 == q.appearances * 100
            IN  /\ q.stability =
                      IF pct100 >= high * q.total_runs THEN "high"
                      ELSE IF pct100 >= medium * q.total_runs /\ pct100 < high * q.total_runs
                           THEN "medium"
                      ELSE "low"
                /\ q.stability # "unknown"
                /\ (q.appearances = 1 /\ q.total_runs = 4) =>
                      /\ RatEq(q.appearance_rate, Rat(25, 100))
                      /\ (high = 75 /\ medium = 50) => q.stability = "low"

\* A quote found in 1 of 4 runs under the default thresholds, rated LOW, beside
\* one found in 3 of 4, rated HIGH.
C14_Witness ==
    /\ quote_pc = "done"
    /\ Len(all_quotes) = 4
    /\ DOMAIN quote_config = {}
    /\ \E k \in 1..Len(quote_results) :
          quote_results[k].appearances = 1 /\ quote_results[k].stability = "low"
    /\ \E k \in 1..Len(quote_results) :
          quote_results[k].appearances = 3 /\ quote_results[k].stability = "high"

\* Where a normalized text is first seen when the runs are scanned in order:
\* the run and the position in it, as one number.
FirstSeen(norm) ==
    LET r == CHOOSE x \in RunsContaining(norm) : \A y \in RunsContaining(norm) : x <= y
        at == {j \in 1..Len(all_quotes[r]) :
                   normalize(Get(all_quotes[r][j], "text", <<>>)) = norm}
        j == CHOOSE x \in at : \A y \in at : x <= y
    IN  r * 100 + j

\* C15: the returned list is sorted by non-increasing appearance_rate, and
\* quotes of equal rate come in the order in which their normalized text was
\* first seen.
C15_SortedByRateStable ==
    quote_pc = "done" =>
        \A i, j \in 1..Len(quote_results) :
            i < j =>
                /\ RateGE(quote_results[i], quote_results[j])
                /\ RateGE(quote_results[j], quote_results[i]) =>
                      FirstSeen(normalize(quote_results[i].text))
                          < FirstSeen(normalize(quote_results[j].text))

\* Three quotes: the one seen last has the highest rate and comes first, the
\* other two tie and keep their first-seen order.
C15_Witness ==
    /\ quote_pc = "done"
    /\ Len(quote_results) = 3
    /\ quote_results[1].appearances > quote_results[2].appearances
    /\ quote_results[2].appearances = quote_results[3].appearances
    /\ FirstSeen(normalize(quote_results[1].text)) > FirstSeen(normalize(quote_results[3].text))

\* The values that the runs of valid_results extracted for a name, in run
\* order: a run adds its value when its extraction has the name with a value
\* that is not None.
Extracted(name) ==
    LET has == SelectSeq(valid_results,
                         LAMBDA r : /\ name \in DOMAIN Responses[r.resp].metrics
                                    /\ Responses[r.resp].metrics[name] # None)
    IN  [i \in 1..Len(has) |-> Responses[has[i].resp].metrics[name][1]]

\* C16: for each metric name the sample list is exactly the values of the runs
\* that extracted a non-null value for it, in run order; a silent run adds no
\* sample and a run that extracted 0 adds the sample 0.
C16_SamplesAreNonNullValues ==
    (Returned /\ extract_metrics_fn) =>
        \A name \in MetricNames :
            IF Extracted(name) = <<>>
            THEN name \notin DOMAIN outcome.metrics
            ELSE /\ name \in DOMAIN outcome.metrics
                 /\ outcome.metrics[name].values = Extracted(name)

\* Three runs: one silent on "se", one with se = None, one with se = 0; the
\* sample list of "se" is the single 0.
C16_Witness ==
    /\ Returned /\ extract_metrics_fn
    /\ Len(valid_results) = 3
    /\ \E k \in 1..3 : "se" \notin DOMAIN Responses[valid_results[k].resp].metrics
    /\ \E k \in 1..3 : /\ "se" \in DOMAIN Responses[valid_results[k].resp].metrics
                       /\ Responses[valid_results[k].resp].metrics["se"] = None
    /\ "se" \in DOMAIN outcome.metrics
    /\ outcome.metrics["se"].values = <<0>>

\* The metrics and the quotes of a result that are rated LOW.
LowMetrics(o) == {m \in DOMAIN o.metrics : o.metrics[m].stability = "low"}
LowQuotes(o) == {k \in 1..Len(QuoteEntries(o)) : QuoteEntries(o)[k].stability = "low"}

\* C17: flagged_items holds exactly one entry for each metric rated LOW and one
\* for each quote rated LOW and nothing else; its length is the number of LOW
\* items and it is non-empty exactly when overall_stability is LOW.
C17_FlaggedAreTheLowItems ==
    Returned =>
        LET f == outcome.flagged_items
            quotes == QuoteEntries(outcome)
        IN  /\ Len(f) = Cardinality(LowMetrics(outcome)) + Cardinality(LowQuotes(outcome))
            /\ \A m \in LowMetrics(outcome) :
                  Cardinality({i \in 1..Len(f) : f[i].kind = "metric" /\ f[i].name = m}) = 1
            /\ \A k \in LowQuotes(outcome) :
                  Cardinality({i \in 1..Len(f) :
                                  /\ f[i].kind = "quote"
                                  /\ f[i].preview = QuoteFlag(quotes[k]).preview}) = 1
            /\ \A i \in 1..Len(f) :
                  \/ f[i].kind = "metric" /\ f[i].name \in LowMetrics(outcome)
                  \/ /\ f[i].kind = "quote"
                     /\ \E k \in LowQuotes(outcome) : f[i] = QuoteFlag(quotes[k])
            /\ (f # <<>>) <=> (outcome.overall_stability = "low")

\* A result with a LOW metric, a LOW quote and an item that is not LOW.
C17_Witness ==
    /\ Returned
    /\ LowMetrics(outcome) # {}
    /\ LowQuotes(outcome) # {}
    /\ LowMetrics(outcome) # DOMAIN outcome.metrics
    /\ Len(outcome.flagged_items) = 3

\* C18: run_n_times eventually returns when each provider call returns, raises
\* or is still running after timeout_per_run_seconds: the call that is past
\* the timeout is dropped and keeps neither the other calls nor the caller
\* waiting.
C18_EventuallyReturns == <>(pc = "returned")

\* C19: during run_with_consensus with a config whose max_concurrent_runs is C,
\* at most C provider calls are in flight at any time.
C19_InFlightAtMostConfigured ==
    entry = "run_with_consensus" =>
        Cardinality(Running) <= Get(OrDefault(config), "max_concurrent_runs", DefaultMaxConcurrent)

\* C20: constructing a ConsensusEngine with a provider name other than
\* "anthropic" and "openai", or with one of the two when its client library is
\* not importable, raises at construction: no engine object exists afterwards
\* and no provider call is ever issued.
C20_BadProviderFailsFast ==
    (provider \notin Libraries \/ provider \notin available) =>
        /\ engine.kind # "engine"
        /\ engine # NoEngine => engine.kind = "raised"
        /\ issued = 0

\* "openai" was asked for where only the anthropic package is installed, and
\* the constructor has raised.
C20_Witness ==
    /\ provider = "openai"
    /\ available = {"anthropic"}
    /\ engine = [kind |-> "raised", exc |-> "ImportError"]
    /\ issued = 0

\* A dict of the heap as a value: each reference replaced by the dict it
\* refers to (configs nest one level).
TreeOf(h, id) ==
    [k \in DOMAIN h[id] |-> IF IsDict(h[id][k]) THEN [dict |-> h[h[id][k].ref]] ELSE h[id][k]]

\* What a deep merge of two configs is, key by key.
DeepMerge(b, o) ==
    [k \in DOMAIN b \cup DOMAIN o |->
        IF k \notin DOMAIN o THEN b[k]
        ELSE IF k \in DOMAIN b /\ "dict" \in DOMAIN b[k] /\ "dict" \in DOMAIN o[k]
        THEN [dict |-> [x \in DOMAIN b[k].dict \cup DOMAIN o[k].dict |->
                           IF x \in DOMAIN o[k].dict THEN o[k].dict[x] ELSE b[k].dict[x]]]
        ELSE o[k]]

\* C21: merge_config(base, override) is a deep merge: a mapping under a key of
\* both is the base's mapping overlaid with the override's, every other key of
\* override replaces base's value, a key only in base is kept; and no dict
\* that existed before the call, base and its nested mapping among them, is
\* modified.
C21_DeepMergeLeavesBase ==
    [][merge_pc' = "done" =>
          /\ TreeOf(heap', merge_result') = DeepMerge(TreeOf(heap, 1), TreeOf(heap, 3))
          /\ \A id \in 1..Len(heap) : heap'[id] = heap[id]
          /\ merge_result' \notin 1..Len(heap)]_vars

\* A partial stage_n override: the result's stage_n has the override's
\* hunt_patterns and the base's mine_qual, and default_n is the base's.
C21_Witness ==
    /\ merge_pc = "done"
    /\ heap[2] = [hunt_patterns |-> Leaf(1), mine_qual |-> Leaf(2)]
    /\ heap[4] = [hunt_patterns |-> Leaf(2)]
    /\ heap[1] = [default_n |-> Leaf(1), stage_n |-> Ref(2)]
    /\ heap[3] = [stage_n |-> Ref(4)]
    /\ TreeOf(heap, merge_result) =
          [default_n |-> Leaf(1),
           stage_n |-> [dict |-> [hunt_patterns |-> Leaf(2), mine_qual |-> Leaf(2)]]]

\* The pattern that produced the k-th record of the list extract_quotes
\* returned: 1 block-quote, 2 inline-parenthetical, 3 dash-attribution.
PatternOf(k) ==
    LET nb == Len(FindIter("blockquote", response, 1))
        ni == Len(FindIter("inline", response, 1))
    IN  IF k <= nb THEN 1 ELSE IF k <= nb + ni THEN 2 ELSE 3

\* C22: the list extract_quotes returns for one response never holds the same
\* literal text twice when the second record comes from a later pattern than
\* the first (block-quote, then inline-parenthetical, then dash-attribution).
C22_NoRecaptureByLaterPattern ==
    extract_pc = "done" =>
        \A i, j \in 1..Len(extracted) :
            (i < j /\ PatternOf(i) < PatternOf(j)) => extracted[i].text # extracted[j].text

\* C23: MetricConsensus round-trips through to_dict: the object built from
\* the mapping equals the original in name, values, mean, median, std,
\* ci_lower, ci_upper, cv and stability (the StabilityRating member).
C23_RoundTrip ==
    dict_pc = "rebuilt" =>
        /\ mc_back.name = mc_obj.name
        /\ mc_back.values = mc_obj.values
        /\ mc_back.mean = mc_obj.mean
        /\ mc_back.median = mc_obj.median
        /\ mc_back.std = mc_obj.std
        /\ mc_back.ci_lower = mc_obj.ci_lower
        /\ mc_back.ci_upper = mc_obj.ci_upper
        /\ mc_back.cv = mc_obj.cv
        /\ mc_back.stability = mc_obj.stability

\* The result run_with_consensus would have returned had run_n_times
\* returned its results in the order p (a permutation of the indices).
Reordered(p) ==
    Consensus([i \in 1..Len(valid_results) |-> valid_results[p[i]]],
              IF extract_metrics_fn
              THEN CHOOSE names \in Orders(MetricNames) : TRUE ELSE <<>>,
              extract_metrics_fn, extract_quotes_fn, config)

\* How often v occurs in a sample list.
Occurrences(values, v) == Cardinality({i \in 1..Len(values) : values[i] = v})

\* Two results agree on every metric: sample multiset, mean, median, std, CV
\* and rating.
SameMetrics(a, b) ==
    /\ DOMAIN a.metrics = DOMAIN b.metrics
    /\ \A m \in DOMAIN a.metrics :
          LET x == a.metrics[m]
              y == b.metrics[m]
          IN  /\ Len(x.values) = Len(y.values)
              /\ \A i \in 1..Len(x.values) :
                    Occurrences(x.values, x.values[i]) = Occurrences(y.values, x.values[i])
              /\ x.mean = y.mean /\ x.median = y.median /\ x.std = y.std
              /\ x.cv = y.cv /\ x.stability = y.stability

\* A quote by what it is grouped under, with its count, rate and rating.
QuoteFacts(o) ==
    { [ norm |-> normalize(QuoteEntries(o)[k].text),
        appearances |-> QuoteEntries(o)[k].appearances,
        appearance_rate |-> QuoteEntries(o)[k].appearance_rate,
        stability |-> QuoteEntries(o)[k].stability ] : k \in 1..Len(QuoteEntries(o)) }

FlaggedSet(o) == {o.flagged_items[i] : i \in 1..Len(o.flagged_items)}

\* A flagged item with the preview of a quote reduced to its normalized text.
FlagUpToSpelling(f) == IF f.kind = "quote" THEN [f EXCEPT !.preview = normalize(@)] ELSE f

Critical(type) ==
    {i \in 1..Len(report.violations) :
        report.violations[i].type = type /\ report.violations[i].severity = "critical"}

HighPreannouncements ==
    {i \in 1..Len(report.theory_analysis.preannouncements) :
        report.theory_analysis.preannouncements[i].severity = "high"}

\* C25: with a structure rating of 3 or less or a pre-announcement of severity
\* "high" the report is not properly inductive; each high-severity
\* pre-announcement yields one critical violation, a rating of 2 or less one
\* more, and is_properly_inductive holds exactly when structure_rating >= 4
\* and critical_count = 0.
C25_ProblematicNotInductive ==
    (coh_pc = "done" /\ report.theory_analysis # None) =>
        LET rating == report.theory_analysis.structure_rating
        IN  /\ (rating <= 3 \/ HighPreannouncements # {}) => ~is_properly_inductive(report)
            /\ Cardinality(Critical("findings_preannounced")) = Cardinality(HighPreannouncements)
            /\ Cardinality(Critical("confirmatory_structure")) = IF rating <= 2 THEN 1 ELSE 0
            /\ critical_count(report) >= Cardinality(HighPreannouncements)
                                           + (IF rating <= 2 THEN 1 ELSE 0)
            /\ is_properly_inductive(report) <=> (rating >= 4 /\ critical_count(report) = 0)

\* A rating of 2 with two pre-announcements, one of them high.
C25_Witness ==
    /\ coh_pc = "done" /\ report.theory_analysis # None
    /\ report.theory_analysis.structure_rating = 2
    /\ Len(report.theory_analysis.preannouncements) = 2
    /\ Cardinality(HighPreannouncements) = 1
    /\ critical_count(report) = 2
    /\ ~is_properly_inductive(report)

\* C26: with no pre-announcements and a structure rating of 4 or 5 the report
\* has critical_count = 0 and is properly inductive, whatever the
\* contributions and whether or not a gap statement was found; a missing gap
\* adds only a warning.
C26_CleanIsInductive ==
    (/\ coh_pc = "done" /\ report.theory_analysis # None
     /\ report.theory_analysis.preannouncements = <<>>
     /\ report.theory_analysis.structure_rating >= 4) =>
        /\ critical_count(report) = 0
        /\ is_properly_inductive(report)
        /\ report.violations =
              IF report.theory_analysis.gap_statement = <<>>
              THEN << CoherenceViolation("missing_gap_statement", "warning", None) >>
              ELSE <<>>

\* No gap statement, two contributions with mechanisms, rating 4.
C26_Witness ==
    /\ coh_pc = "done" /\ report.theory_analysis # None
    /\ report.theory_analysis.preannouncements = <<>>
    /\ report.theory_analysis.structure_rating = 4
    /\ report.theory_analysis.gap_statement = <<>>
    /\ Len(report.contributions) = 2
    /\ \A i \in 1..2 : report.contributions[i].mechanism_if_any # <<>>
    /\ is_properly_inductive(report)

\* The calls of invocation k that are in flight, and those waiting for a slot.
InFlight(k) == {i \in 1..Len(frames[k].tasks) : frames[k].tasks[i] = "running"}
Waiting(k) == {i \in 1..Len(frames[k].tasks) : frames[k].tasks[i] = "pending"}

\* C27: each run_n_times invocation makes and uses its own limiter: of two
\* invocations that run at once each keeps at most its own cap in flight,
\* neither's calls wait for a slot the other holds (a call waits only while
\* its own invocation has its cap in flight), and the limiter is not
\* reachable once the invocation has returned.
C27_OwnLimiter ==
    /\ \A k \in Invocations :
          /\ Cardinality(InFlight(k)) <= frames[k].max_concurrent
          /\ frames[k].pc = "gather" =>
                /\ frames[k].semaphore \in 1..Len(semaphores)
                /\ semaphores[frames[k].semaphore]
                       = frames[k].max_concurrent - Cardinality(InFlight(k))
                /\ \A j \in Invocations \ {k} : frames[j].semaphore # frames[k].semaphore
          /\ frames[k].pc # "gather" => frames[k].semaphore = 0

\* Both invocations run, the first has its cap in flight and a call waiting,
\* the second has a free slot and a call in flight.
C27_Witness ==
    /\ frames[1].pc = "gather" /\ frames[2].pc = "gather"
    /\ frames[1].max_concurrent = 1 /\ frames[2].max_concurrent = 2
    /\ Cardinality(InFlight(1)) = 1 /\ Waiting(1) # {}
    /\ Cardinality(InFlight(2)) = 1 /\ Waiting(2) = {}

\* The records of all_quotes in the order they are seen, the runs one after
\* the other.
RECURSIVE AllRecords(_)
AllRecords(runs) == IF runs = <<>> THEN <<>> ELSE Head(runs) \o AllRecords(Tail(runs))

\* The first record seen whose text normalizes to norm.
FirstRecord(norm) ==
    LET records == AllRecords(all_quotes)
        at == {i \in 1..Len(records) : normalize(Get(records[i], "text", <<>>)) = norm}
    IN  records[CHOOSE i \in at : \A j \in at : i <= j]

\* C28: _aggregate_quotes groups the records by their text lowercased with
\* whitespace runs collapsed: records that differ only in letter case or
\* whitespace fall into one QuoteConsensus, a record whose normalized text is
\* empty is ignored, and text, informant and context of a QuoteConsensus are
\* those of the first record seen for its group.
C28_GroupedByNormalizedText ==
    quote_pc = "done" =>
        LET records == AllRecords(all_quotes)
            norms == {normalize(Get(records[i], "text", <<>>)) : i \in 1..Len(records)} \ {<<>>}
        IN  /\ {normalize(quote_results[k].text) : k \in 1..Len(quote_results)} = norms
            /\ Len(quote_results) = Cardinality(norms)
            /\ \A k \in 1..Len(quote_results) :
                  LET first == FirstRecord(normalize(quote_results[k].text))
                  IN  /\ quote_results[k].text = first.text
                      /\ quote_results[k].informant = Get(first, "informant", "")
                      /\ quote_results[k].context = Get(first, "context", "")

\* Records "B  a" and "b a" of different runs are one quote, shown as the
\* first of them and not as the normalized text; a blank text is left out.
C28_Witness ==
    /\ quote_pc = "done"
    /\ Len(all_quotes) = 2
    /\ all_quotes[1] = << Quote(<<" ">>, "I5"), Quote(<<"B", " ", " ", "a">>, "I6") >>
    /\ all_quotes[2] = << Quote(<<"b", " ", "a">>, "I8"), Quote(<<"a", "B">>, "I9") >>
    /\ Len(quote_results) = 2
    /\ \E k \in 1..2 :
          /\ quote_results[k].text = <<"B", " ", " ", "a">>
          /\ quote_results[k].text # normalize(quote_results[k].text)
          /\ quote_results[k].informant = "I6"
          /\ quote_results[k].appearances = 2

\* ---- C29

\* The rank of a tier, PUBLIC lowest.
TierRank(tier) == CHOOSE i \in DOMAIN Tiers : Tiers[i] = tier

FetchedOf(kind) == fetched # None /\ kind \in DOMAIN fetched

\* C29: after any sequence of store calls, evidence_private holds raw content
\* only for an id whose last stored tier is WITNESS_ONLY and anonymized content
\* only for one whose last stored tier is CONTROLLED or WITNESS_ONLY, and what
\* get_witness_only and get_controlled return obeys the same, also for an id
\* that was stored again at a lower tier.
C29_ContentOnlyAtItsTier ==
    /\ \A id \in EvidenceIds :
          evidence_private[id] # None =>
             /\ evidence_public[id] # None
             /\ evidence_private[id].raw_content # None =>
                   evidence_public[id].tier = "WITNESS_ONLY"
             /\ evidence_private[id].anonymized_content # None =>
                   evidence_public[id].tier \in { "CONTROLLED", "WITNESS_ONLY" }
    /\ FetchedOf("raw_content") =>
          (fetched.raw_content # None => fetched.tier = "WITNESS_ONLY")
    /\ FetchedOf("anonymized_content") =>
          (fetched.anonymized_content # None =>
              fetched.tier \in { "CONTROLLED", "WITNESS_ONLY" })

\* An id read at WITNESS_ONLY while it held raw content, stored again as PUBLIC
\* and read again: the second read gives no raw content.
C29_Witness ==
    /\ Len(access_log) = 2
    /\ access_log[1].evidence_id = access_log[2].evidence_id
    /\ access_log[1].tier_accessed = "WITNESS_ONLY"
    /\ access_log[2].tier_accessed = "WITNESS_ONLY"
    /\ store_calls >= 2
    /\ FetchedOf("raw_content")
    /\ fetched.tier = "PUBLIC"
    /\ fetched.raw_content = None

\* ---- C30

\* The decisions list that state.json holds; empty when it holds none.
LoggedDecisions ==
    IF state_json.kind = "json"
    THEN Get(state_json.state, "decisions", << >>)
    ELSE << >>

AllQuiet == \A c \in Callers : Quiet(c)

====
